---- MODULE Spec2Model ----
(***************************************************************************)
(* Model of the Parsinator brief-to-task pipeline (src/src/parsinator):    *)
(* TaskCollection (models.py), TaskIDManager (id_manager.py),              *)
(* DependencyMapper (dependency_mapper.py), BriefParser type detection     *)
(* (parser.p.py) and EnhancedTaskGenerator (enhanced_generator.py).        *)
(*                                                                         *)
(* Text is modelled as a sequence of whitespace-separated chunks.  A chunk *)
(* is a record [w, b, s]: the lower-case word w, whether it is wrapped in  *)
(* bold markers, and the punctuation s that directly follows it.           *)
(***************************************************************************)
EXTENDS Integers, Sequences, FiniteSets, TLC

VARIABLES
    pc,      \* position of the caller
    input,   \* what the caller passes in: documents, briefs, graphs
    output,  \* what the last call returned or raised
    heap,    \* the TaskCollection objects, addressed by reference 1..Len(heap)
    mgr,     \* the TaskIDManager object
    gen      \* the EnhancedTaskGenerator object

vars == <<pc, input, output, heap, mgr, gen>>

\* no TaskIDManager and no EnhancedTaskGenerator has been constructed
NoObjects == heap = <<>> /\ mgr = <<>> /\ gen = <<>>

(***************************************************************************)
(* Generic helpers                                                         *)
(***************************************************************************)
Range(s) == {s[i] : i \in 1..Len(s)}

Contains(s, x) == \E i \in 1..Len(s) : s[i] = x

Occurrences(s, x) == Cardinality({i \in 1..Len(s) : s[i] = x})

SetMax(S) == CHOOSE x \in S : \A y \in S : y <= x

SetMin(S) == CHOOSE x \in S : \A y \in S : x <= y

Max2(a, b) == IF a >= b THEN a ELSE b

\* all sequences over S of length at most n
SeqsUpTo(S, n) == UNION {[1..k -> S] : k \in 0..n}

\* the elements of a set of integers in ascending order
RECURSIVE SortedSeq(_)
SortedSeq(S) ==
    IF S = {} THEN <<>> ELSE <<SetMin(S)>> \o SortedSeq(S \ {SetMin(S)})

(***************************************************************************)
(* Text                                                                    *)
(***************************************************************************)
Wd(x) == [w |-> x, b |-> FALSE, s |-> ""]

WdColon(x) == [w |-> x, b |-> FALSE, s |-> ":"]

\* str.strip() leaves nothing: no chunk at all
IsBlank(text) == Len(text) = 0

\* the text has no visible character once bold markers are removed
IsEmptyText(text) == \A i \in 1..Len(text) : text[i].w = "" /\ text[i].s = ""

(***************************************************************************)
(* models.py: enums, Task, ProjectMetadata                                 *)
(***************************************************************************)
TaskStatus == [TODO |-> "to-do", IN_PROGRESS |-> "in-progress", DONE |-> "done"]

TaskPriority == [HIGH |-> "high", MEDIUM |-> "medium", LOW |-> "low"]

\* Enum(value): the member whose value is given
EnumOf(enum, value) == CHOOSE m \in DOMAIN enum : enum[m] = value

IsEnumValue(enum, value) == \E m \in DOMAIN enum : enum[m] = value

\* Task.__post_init__: the checks that raise ValueError
TaskIsValid(id, title, description) ==
    /\ ~IsEmptyText(title) /\ ~IsBlank(title)
    /\ ~IsEmptyText(description) /\ ~IsBlank(description)
    /\ id > 0

NewTask(id, title, description, priority, dependencies, status) ==
    [id |-> id, title |-> title, description |-> description,
     priority |-> priority, dependencies |-> dependencies, status |-> status]

Task_to_dict(t) ==
    [id |-> t.id, title |-> t.title, description |-> t.description,
     priority |-> TaskPriority[t.priority],
     dependencies |-> t.dependencies,
     status |-> TaskStatus[t.status]]

Task_from_dict(data) ==
    NewTask(data.id, data.title, data.description,
            EnumOf(TaskPriority, data.priority),
            IF "dependencies" \in DOMAIN data THEN data.dependencies ELSE <<>>,
            EnumOf(TaskStatus,
                   IF "status" \in DOMAIN data THEN data.status ELSE "to-do"))

Task_add_dependency(t, task_id) ==
    IF Contains(t.dependencies, task_id) THEN t
    ELSE [t EXCEPT !.dependencies = Append(@, task_id)]

Task_is_blocked_by(t, completed_task_ids) ==
    ~(\A i \in 1..Len(t.dependencies) : t.dependencies[i] \in completed_task_ids)

DefaultDescription == <<Wd("generated")>>

DefaultName == "Generated Project"

ProjectMetadata_to_dict(m) ==
    [created |-> [iso |-> m.created], updated |-> [iso |-> m.updated],
     description |-> m.description]

ProjectMetadata_from_dict(data, now) ==
    [name |-> DefaultName,
     description |-> IF "description" \in DOMAIN data THEN data.description
                     ELSE DefaultDescription,
     created |-> IF "created" \in DOMAIN data THEN data.created.iso ELSE now,
     updated |-> IF "updated" \in DOMAIN data THEN data.updated.iso ELSE now,
     total_tasks |-> 0, completed_tasks |-> 0]

(***************************************************************************)
(* models.py: TaskCollection.  _tasks is a dict: a map together with its   *)
(* insertion order.                                                        *)
(***************************************************************************)
EmptyCollection == [tasks |-> <<>>, order |-> <<>>, next_id |-> 1]

Keys(coll) == DOMAIN coll.tasks

\* self._tasks[task.id] = task (an existing key keeps its position)
DictPut(coll, t) ==
    [coll EXCEPT
       !.tasks = [k \in (DOMAIN coll.tasks) \cup {t.id} |->
                    IF k = t.id THEN t ELSE coll.tasks[k]],
       !.order = IF t.id \in DOMAIN coll.tasks THEN @ ELSE Append(@, t.id)]

\* an insertion that does not look at the dependencies of the task
add_task_unchecked(coll, t) ==
    IF t.id \in Keys(coll)
    THEN [raised |-> "ValueError: exists", coll |-> coll]
    ELSE [raised |-> "",
          coll |-> [DictPut(coll, t) EXCEPT !.next_id = Max2(coll.next_id, t.id + 1)]]

add_task(coll, t) ==
    IF t.id \in Keys(coll)
    THEN [raised |-> "ValueError: exists", coll |-> coll]
    ELSE IF \E i \in 1..Len(t.dependencies) : t.dependencies[i] \notin Keys(coll)
    THEN [raised |-> "ValueError: dependency", coll |-> coll]
    ELSE [raised |-> "",
          coll |-> [DictPut(coll, t) EXCEPT !.next_id = Max2(coll.next_id, t.id + 1)]]

\* a creation that numbers the new task by the size of the collection
create_task_counting(coll, title, description, priority, dependencies) ==
    LET id == Cardinality(Keys(coll)) + 1
    IN IF ~TaskIsValid(id, title, description)
       THEN [raised |-> "ValueError: task", coll |-> coll, id |-> 0]
       ELSE LET r == add_task(coll, NewTask(id, title, description,
                                            priority, dependencies, "TODO"))
            IN [raised |-> r.raised, coll |-> r.coll, id |-> id]

create_task(coll, title, description, priority, dependencies) ==
    IF ~TaskIsValid(coll.next_id, title, description)
    THEN [raised |-> "ValueError: task", coll |-> coll, id |-> 0]
    ELSE LET r == add_task(coll, NewTask(coll.next_id, title, description,
                                         priority, dependencies, "TODO"))
         IN [raised |-> r.raised, coll |-> r.coll, id |-> coll.next_id]

get_all_tasks(coll) ==
    LET ids == SortedSeq(Keys(coll)) IN [i \in 1..Len(ids) |-> coll.tasks[ids[i]]]

get_completed_task_ids(coll) == {k \in Keys(coll) : coll.tasks[k].status = "DONE"}

\* returned as the set of IDs of the unlocked tasks
get_unlocked_tasks(coll) ==
    {k \in Keys(coll) :
        /\ coll.tasks[k].status = "TODO"
        /\ ~Task_is_blocked_by(coll.tasks[k], get_completed_task_ids(coll))}

(***************************************************************************)
(* models.py: validate_dependencies and the DFS cycle check.  A DFS state  *)
(* is [visited, rec_stack]; a call returns [r, st].                        *)
(***************************************************************************)
RECURSIVE has_cycle(_, _, _), has_cycle_deps(_, _, _, _)

has_cycle_buggy(coll, task_id, st) ==
    IF task_id \in st.visited THEN [r |-> FALSE, st |-> st]
    ELSE IF task_id \in st.rec_stack THEN [r |-> TRUE, st |-> st]
    ELSE LET st1 == [visited |-> st.visited \cup {task_id},
                     rec_stack |-> st.rec_stack \cup {task_id}]
             x == IF task_id \in Keys(coll)
                  THEN has_cycle_deps(coll, coll.tasks[task_id].dependencies, 1, st1)
                  ELSE [r |-> FALSE, st |-> st1]
         IN IF x.r THEN x
            ELSE [r |-> FALSE,
                  st |-> [x.st EXCEPT !.rec_stack = @ \ {task_id}]]

has_cycle(coll, task_id, st) ==
    IF task_id \in st.rec_stack THEN [r |-> TRUE, st |-> st]
    ELSE IF task_id \in st.visited THEN [r |-> FALSE, st |-> st]
    ELSE LET st1 == [visited |-> st.visited \cup {task_id},
                     rec_stack |-> st.rec_stack \cup {task_id}]
             x == IF task_id \in Keys(coll)
                  THEN has_cycle_deps(coll, coll.tasks[task_id].dependencies, 1, st1)
                  ELSE [r |-> FALSE, st |-> st1]
         IN IF x.r THEN x
            ELSE [r |-> FALSE,
                  st |-> [x.st EXCEPT !.rec_stack = @ \ {task_id}]]

\* for dep_id in task.dependencies: if has_cycle(dep_id): return True
has_cycle_deps(coll, deps, i, st) ==
    IF i > Len(deps) THEN [r |-> FALSE, st |-> st]
    ELSE LET x == has_cycle(coll, deps[i], st)
         IN IF x.r THEN x ELSE has_cycle_deps(coll, deps, i + 1, x.st)

\* for task_id in self._tasks: if task_id not in visited: if has_cycle(task_id)
RECURSIVE has_circular_loop(_, _, _)
has_circular_loop(coll, i, st) ==
    IF i > Len(coll.order) THEN FALSE
    ELSE IF coll.order[i] \in st.visited THEN has_circular_loop(coll, i + 1, st)
    ELSE LET x == has_cycle(coll, coll.order[i], st)
         IN IF x.r THEN TRUE ELSE has_circular_loop(coll, i + 1, x.st)

has_circular_dependencies(coll) ==
    has_circular_loop(coll, 1, [visited |-> {}, rec_stack |-> {}])

SelfError(id) == [kind |-> "self", task |-> id, dep |-> id]

MissingError(id, dep) == [kind |-> "missing", task |-> id, dep |-> dep]

CircularError == [kind |-> "circular", task |-> 0, dep |-> 0]

\* the "depends on non-existent task" errors of one task, in list order
RECURSIVE MissingErrors(_, _, _)
MissingErrors(coll, t, i) ==
    IF i > Len(t.dependencies) THEN <<>>
    ELSE (IF t.dependencies[i] \notin Keys(coll)
          THEN <<MissingError(t.id, t.dependencies[i])>> ELSE <<>>)
         \o MissingErrors(coll, t, i + 1)

RECURSIVE TaskErrors(_, _)
TaskErrors(coll, i) ==
    IF i > Len(coll.order) THEN <<>>
    ELSE LET t == coll.tasks[coll.order[i]]
         IN (IF Contains(t.dependencies, t.id) THEN <<SelfError(t.id)>> ELSE <<>>)
            \o MissingErrors(coll, t, 1)
            \o TaskErrors(coll, i + 1)

\* validation that repairs what it finds: dangling and self references dropped
validate_dependencies_repairing(coll) ==
    [errors |-> TaskErrors(coll, 1)
                \o (IF has_circular_dependencies(coll) THEN <<CircularError>> ELSE <<>>),
     coll |-> [coll EXCEPT !.tasks =
                 [k \in Keys(coll) |->
                    [coll.tasks[k] EXCEPT !.dependencies =
                       SelectSeq(@, LAMBDA d : d \in Keys(coll) /\ d # k)]]]]

\* returns the error list; the collection is carried along to show the
\* call's effect on it
validate_dependencies(coll) ==
    [errors |-> TaskErrors(coll, 1)
                \o (IF has_circular_dependencies(coll) THEN <<CircularError>> ELSE <<>>),
     coll |-> coll]

(***************************************************************************)
(* Dependency graphs placed directly into a collection's internal map      *)
(***************************************************************************)
NumGraphTasks == 3

PlainTitle == <<Wd("alpha")>>

PlainDescription == <<Wd("beta")>>

\* a collection with keys 1..n whose tasks carry the given dependency lists
GraphCollection(deps) ==
    [tasks |-> [k \in DOMAIN deps |->
                  NewTask(k, PlainTitle, PlainDescription, "MEDIUM", deps[k], "TODO")],
     order |-> [k \in DOMAIN deps |-> k],
     next_id |-> 1]

\* dependency lists of up to two IDs in non-decreasing order, so that
\* repeated entries and entries for missing IDs occur
GraphDeps ==
    {<<>>} \cup {<<a>> : a \in 1..(NumGraphTasks + 1)}
           \cup {d \in (1..(NumGraphTasks + 1)) \X (1..(NumGraphTasks + 1)) : d[1] <= d[2]}

GraphInputs ==
    {GraphCollection(deps) :
        deps \in UNION {[1..n -> GraphDeps] : n \in 0..NumGraphTasks}}

InitValidate ==
    /\ pc = "input"
    /\ input \in GraphInputs
    /\ output = <<>>
    /\ NoObjects

ValidateDependencies ==
    /\ pc = "input"
    /\ output' = validate_dependencies(input)
    /\ pc' = "validated"
    /\ UNCHANGED <<input, heap, mgr, gen>>

NextValidate == ValidateDependencies

SpecValidate == InitValidate /\ [][NextValidate]_vars

\* the edge relation t -> d for d in t.dependencies, t a task of the collection
Edges(coll) ==
    UNION {{<<k, coll.tasks[k].dependencies[i]>> :
              i \in 1..Len(coll.tasks[k].dependencies)} : k \in Keys(coll)}

Successors(E, S) == {e[2] : e \in {x \in E : x[1] \in S}}

RECURSIVE ReachableFrom(_, _)
ReachableFrom(E, S) ==
    LET S2 == S \cup Successors(E, S)
    IN IF S2 = S THEN S ELSE ReachableFrom(E, S2)

\* some edge k -> d closes a directed path d -> ... -> k
HasDirectedCycle(E) == \E e \in E : e[1] \in ReachableFrom(E, {e[2]})

GraphIds == 1..(NumGraphTasks + 1)

\* C4: validate_dependencies() reports a circular-dependency error if and
\* only if the graph t -> d (d in t.dependencies) has a directed cycle, for
\* every graph placed directly into the collection, dangling edges included.
C4_CycleReportedIffCycle ==
    pc = "validated" =>
        (Contains(output.errors, CircularError) <=> HasDirectedCycle(Edges(input)))

ThreeCycle == GraphCollection(<<(<<2>>), (<<3>>), (<<1>>)>>)

C4_Witness ==
    /\ pc = "validated"
    /\ input = ThreeCycle
    /\ Contains(output.errors, CircularError)

\* C5: validate_dependencies() returns one self-dependency error for every
\* task that lists its own id, one missing-dependency error for every
\* dependency entry that is not a key of the collection, no other such
\* error, and leaves the collection exactly as it was.
C5_ReportsAndNeverRepairs ==
    pc = "validated" =>
        /\ output.coll = input
        /\ \A k \in GraphIds :
              /\ Occurrences(output.errors, SelfError(k)) =
                   IF k \in Keys(input) /\ Contains(input.tasks[k].dependencies, k)
                   THEN 1 ELSE 0
              /\ \A d \in GraphIds :
                   Occurrences(output.errors, MissingError(k, d)) =
                     IF k \in Keys(input) /\ d \notin Keys(input)
                     THEN Occurrences(input.tasks[k].dependencies, d) ELSE 0

C5_Witness ==
    /\ pc = "validated"
    /\ Keys(input) = {1, 2}
    /\ input.tasks[1].dependencies = <<1>>
    /\ input.tasks[2].dependencies = <<3, 3>>
    /\ output.errors = <<SelfError(1), MissingError(2, 3), MissingError(2, 3),
                         CircularError>>
    /\ output.coll = input

(***************************************************************************)
(* models.py: to_tasks_json / from_tasks_json                              *)
(***************************************************************************)
to_tasks_json(coll, metadata) ==
    LET all == get_all_tasks(coll)
    IN [master |-> [tasks |-> [i \in 1..Len(all) |-> Task_to_dict(all[i])],
                    metadata |-> ProjectMetadata_to_dict(metadata)]]

\* Task(...) raises for this dict (ValueError from __post_init__ or the enums)
DictIsValid(data) ==
    /\ TaskIsValid(data.id, data.title, data.description)
    /\ IsEnumValue(TaskPriority, data.priority)
    /\ ("status" \in DOMAIN data => IsEnumValue(TaskStatus, data.status))

\* the loop of from_tasks_json from position i on
RECURSIVE LoadTasks(_, _, _)
LoadTasks(tasks_data, i, coll) ==
    IF i > Len(tasks_data) THEN [raised |-> "", coll |-> coll]
    ELSE IF ~DictIsValid(tasks_data[i]) THEN [raised |-> "ValueError: task", coll |-> coll]
    ELSE LET t == Task_from_dict(tasks_data[i])
         IN LoadTasks(tasks_data, i + 1,
                      [DictPut(coll, t) EXCEPT !.next_id = Max2(coll.next_id, t.id + 1)])

\* a loader that forgets to advance the counter
from_tasks_json_stale_counter(data, now) ==
    LET master == IF "master" \in DOMAIN data THEN data.master ELSE <<>>
        r == LoadTasks(IF "tasks" \in DOMAIN master THEN master.tasks ELSE <<>>,
                       1, EmptyCollection)
    IN [raised |-> r.raised,
        coll |-> [r.coll EXCEPT !.next_id = 1],
        metadata |-> ProjectMetadata_from_dict(
                        IF "metadata" \in DOMAIN master THEN master.metadata ELSE <<>>,
                        now)]

\* a loader that takes the number of tasks read as the highest ID in use
from_tasks_json_counting(data, now) ==
    LET master == IF "master" \in DOMAIN data THEN data.master ELSE <<>>
        r == LoadTasks(IF "tasks" \in DOMAIN master THEN master.tasks ELSE <<>>,
                       1, EmptyCollection)
    IN [raised |-> r.raised,
        coll |-> [r.coll EXCEPT !.next_id = Cardinality(Keys(r.coll)) + 1],
        metadata |-> ProjectMetadata_from_dict(
                        IF "metadata" \in DOMAIN master THEN master.metadata ELSE <<>>,
                        now)]

from_tasks_json(data, now) ==
    LET master == IF "master" \in DOMAIN data THEN data.master ELSE <<>>
        r == LoadTasks(IF "tasks" \in DOMAIN master THEN master.tasks ELSE <<>>,
                       1, EmptyCollection)
    IN [raised |-> r.raised,
        coll |-> r.coll,
        metadata |-> ProjectMetadata_from_dict(
                        IF "metadata" \in DOMAIN master THEN master.metadata ELSE <<>>,
                        now)]

(***************************************************************************)
(* Round trip through the tasks.json format                                *)
(***************************************************************************)
MaxJsonId == 2

\* task profiles: every priority and every status occurs
JsonProfiles ==
    {[title |-> PlainTitle, description |-> PlainDescription,
      priority |-> "HIGH", status |-> "TODO"],
     [title |-> <<Wd("setup"), Wd("alpha")>>, description |-> <<Wd("gamma")>>,
      priority |-> "MEDIUM", status |-> "IN_PROGRESS"],
     [title |-> <<Wd("gamma")>>, description |-> <<WdColon("alpha"), Wd("beta")>>,
      priority |-> "LOW", status |-> "DONE"]}

JsonTask(k, p) ==
    NewTask(k, p.prof.title, p.prof.description, p.prof.priority, p.deps, p.prof.status)

JsonParams ==
    {[prof |-> pr, deps |-> d] :
        pr \in JsonProfiles, d \in {<<>>} \cup {<<x>> : x \in 1..MaxJsonId}}

Reverse(q) == [i \in 1..Len(q) |-> q[Len(q) + 1 - i]]

NextIdFor(S) == IF S = {} THEN 1 ELSE SetMax(S) + 1

\* collections as add_task builds them (any key set, counter past the
\* largest key), inserted in ascending or in descending ID order
JsonCollections ==
    UNION {{[tasks |-> [k \in S |-> JsonTask(k, f[k])], order |-> o,
             next_id |-> NextIdFor(S)] :
              f \in [S -> JsonParams],
              o \in {SortedSeq(S), Reverse(SortedSeq(S))}} : S \in SUBSET (1..MaxJsonId)}

JsonMetadata ==
    {[name |-> DefaultName, description |-> PlainDescription, created |-> 1,
      updated |-> 2, total_tasks |-> 0, completed_tasks |-> 0],
     [name |-> "My Project", description |-> <<Wd("gamma"), Wd("delta")>>,
      created |-> 1, updated |-> 2, total_tasks |-> 2, completed_tasks |-> 1]}

InitJson ==
    /\ pc = "input"
    /\ input \in {[coll |-> c, metadata |-> m] : c \in JsonCollections, m \in JsonMetadata}
    /\ output = <<>>
    /\ NoObjects

ToTasksJson ==
    /\ pc = "input"
    /\ output' = [data |-> to_tasks_json(input.coll, input.metadata)]
    /\ pc' = "serialized"
    /\ UNCHANGED <<input, heap, mgr, gen>>

FromTasksJson ==
    /\ pc = "serialized"
    /\ output' = [data |-> output.data, restored |-> from_tasks_json(output.data, 3)]
    /\ pc' = "restored"
    /\ UNCHANGED <<input, heap, mgr, gen>>

NextJson == ToTasksJson \/ FromTasksJson

SpecJson == InitJson /\ [][NextJson]_vars

\* C6: from_tasks_json(to_tasks_json(c, m)) has the same tasks under the
\* same IDs (title, description, priority, dependency sequence and status
\* equal), its next created ID is the largest ID plus one, and its metadata
\* has the description of m.
C6_RoundTrip ==
    pc = "restored" =>
        /\ output.restored.raised = ""
        /\ output.restored.coll.tasks = input.coll.tasks
        /\ output.restored.coll.next_id = NextIdFor(Keys(input.coll))
        /\ output.restored.coll.next_id = input.coll.next_id
        /\ create_task(output.restored.coll, PlainTitle, PlainDescription,
                       "LOW", <<>>).id = NextIdFor(Keys(input.coll))
        /\ output.restored.metadata.description = input.metadata.description

C6_Witness ==
    /\ pc = "restored"
    /\ Keys(input.coll) = {1, 2}
    /\ input.coll.order = <<2, 1>>
    /\ input.coll.tasks[2].dependencies = <<1>>
    /\ input.coll.tasks[1].status = "DONE"
    /\ input.coll.tasks[2].priority = "HIGH"
    /\ input.metadata.name = "My Project"
    /\ output.restored.coll.tasks = input.coll.tasks
    /\ output.restored.coll.order = <<1, 2>>

(***************************************************************************)
(* dependency_mapper.py: DependencyRelationship and apply_dependencies.    *)
(* A confidence is the exact fraction [n, d] of the float it stands for.   *)
(***************************************************************************)
Conf(n, d) == [n |-> n, d |-> d]

ConfLess(a, b) == a.n * b.d < b.n * a.d

ConfMin(a, b) == IF ConfLess(b, a) THEN b ELSE a

DependencyRelationship(from, to, type, confidence) ==
    [from_task_id |-> from, to_task_id |-> to,
     relationship_type |-> type, confidence |-> confidence]

\* a step that applies every suggestion, whatever its confidence
apply_one_ignoring_threshold(acc, dep, confidence_threshold) ==
    IF /\ dep.from_task_id \in Keys(acc.coll)
       /\ ~Contains(acc.coll.tasks[dep.from_task_id].dependencies, dep.to_task_id)
       /\ dep.from_task_id # dep.to_task_id
    THEN [coll |-> [acc.coll EXCEPT !.tasks[dep.from_task_id] =
                       Task_add_dependency(@, dep.to_task_id)],
          applied_count |-> acc.applied_count + 1]
    ELSE acc

\* a step whose comparison is the wrong way round
apply_one_inverted(acc, dep, confidence_threshold) ==
    IF ConfLess(confidence_threshold, dep.confidence) THEN acc
    ELSE IF /\ dep.from_task_id \in Keys(acc.coll)
            /\ ~Contains(acc.coll.tasks[dep.from_task_id].dependencies, dep.to_task_id)
            /\ dep.from_task_id # dep.to_task_id
    THEN [coll |-> [acc.coll EXCEPT !.tasks[dep.from_task_id] =
                       Task_add_dependency(@, dep.to_task_id)],
          applied_count |-> acc.applied_count + 1]
    ELSE acc

\* a step without the self-edge test
apply_one_allowing_self(acc, dep, confidence_threshold) ==
    IF ConfLess(dep.confidence, confidence_threshold) THEN acc
    ELSE IF /\ dep.from_task_id \in Keys(acc.coll)
            /\ ~Contains(acc.coll.tasks[dep.from_task_id].dependencies, dep.to_task_id)
    THEN [coll |-> [acc.coll EXCEPT !.tasks[dep.from_task_id] =
                       Task_add_dependency(@, dep.to_task_id)],
          applied_count |-> acc.applied_count + 1]
    ELSE acc

\* a step that counts a suggestion whose edge the task already has
apply_one_counting_present(acc, dep, confidence_threshold) ==
    IF ConfLess(dep.confidence, confidence_threshold) THEN acc
    ELSE IF /\ dep.from_task_id \in Keys(acc.coll)
            /\ dep.from_task_id # dep.to_task_id
    THEN [coll |-> [acc.coll EXCEPT !.tasks[dep.from_task_id] =
                       Task_add_dependency(@, dep.to_task_id)],
          applied_count |-> acc.applied_count + 1]
    ELSE acc

\* the body of the loop of apply_dependencies for one suggestion
apply_one(acc, dep, confidence_threshold) ==
    IF ConfLess(dep.confidence, confidence_threshold) THEN acc
    ELSE IF /\ dep.from_task_id \in Keys(acc.coll)
            /\ ~Contains(acc.coll.tasks[dep.from_task_id].dependencies, dep.to_task_id)
            /\ dep.from_task_id # dep.to_task_id
    THEN [coll |-> [acc.coll EXCEPT !.tasks[dep.from_task_id] =
                       Task_add_dependency(@, dep.to_task_id)],
          applied_count |-> acc.applied_count + 1]
    ELSE acc

RECURSIVE apply_loop(_, _, _, _)
apply_loop(acc, dependencies, i, confidence_threshold) ==
    IF i > Len(dependencies) THEN acc
    ELSE apply_loop(apply_one(acc, dependencies[i], confidence_threshold),
                    dependencies, i + 1, confidence_threshold)

apply_dependencies(coll, dependencies, confidence_threshold) ==
    apply_loop([coll |-> coll, applied_count |-> 0], dependencies, 1,
               confidence_threshold)

(***************************************************************************)
(* apply_dependencies on a suggestion list, at a lower and a higher        *)
(* threshold, each from the same collection state                          *)
(***************************************************************************)
MaxSuggestions == 2

ApplyCollections ==
    {GraphCollection(<<(<<>>), (<<>>)>>), GraphCollection(<<(<<2>>), (<<>>)>>),
     GraphCollection(<<(<<>>)>>)}

ApplySuggestions ==
    {DependencyRelationship(f, t, "prerequisite", c) :
        f \in {1, 2, 3}, t \in {1, 2}, c \in {Conf(6, 10), Conf(7, 10), Conf(9, 10)}}

ThresholdPairs ==
    {[lo |-> Conf(5, 10), hi |-> Conf(9, 10)], [lo |-> Conf(5, 10), hi |-> Conf(7, 10)],
     [lo |-> Conf(7, 10), hi |-> Conf(9, 10)], [lo |-> Conf(7, 10), hi |-> Conf(7, 10)]}

NotRun == [coll |-> EmptyCollection, applied_count |-> -1]

InitApply ==
    /\ pc = "input"
    /\ input \in {[coll |-> c, suggestions |-> q, th |-> th] :
                    c \in ApplyCollections,
                    q \in SeqsUpTo(ApplySuggestions, MaxSuggestions),
                    th \in ThresholdPairs}
    /\ output = [lo |-> NotRun, hi |-> NotRun]
    /\ NoObjects

ApplyAtLowThreshold ==
    /\ output.lo = NotRun
    /\ output' = [output EXCEPT
                    !.lo = apply_dependencies(input.coll, input.suggestions, input.th.lo)]
    /\ pc' = "applied"
    /\ UNCHANGED <<input, heap, mgr, gen>>

ApplyAtHighThreshold ==
    /\ output.hi = NotRun
    /\ output' = [output EXCEPT
                    !.hi = apply_dependencies(input.coll, input.suggestions, input.th.hi)]
    /\ pc' = "applied"
    /\ UNCHANGED <<input, heap, mgr, gen>>

NextApply == ApplyAtLowThreshold \/ ApplyAtHighThreshold

SpecApply == InitApply /\ [][NextApply]_vars

\* the edges a call added: present after it, absent before it
AddedEdges(before, after) == Edges(after) \ Edges(before)

\* the result r of a call at threshold th is gated by th
GatedBy(r, th) ==
    /\ \A e \in AddedEdges(input.coll, r.coll) :
          \E i \in 1..Len(input.suggestions) :
             /\ input.suggestions[i].from_task_id = e[1]
             /\ input.suggestions[i].to_task_id = e[2]
             /\ ~ConfLess(input.suggestions[i].confidence, th)
    /\ r = apply_dependencies(input.coll,
              SelectSeq(input.suggestions, LAMBDA dep : ~ConfLess(dep.confidence, th)),
              Conf(0, 1))

\* C7: every dependency that apply_dependencies adds comes from a suggestion
\* whose confidence is at least the threshold, and the suggestions below the
\* threshold have no effect: the call does what it does on the list without
\* them.
C7_ThresholdGating ==
    /\ output.lo # NotRun => GatedBy(output.lo, input.th.lo)
    /\ output.hi # NotRun => GatedBy(output.hi, input.th.hi)

C7_Witness ==
    /\ output.hi # NotRun
    /\ input.th.hi = Conf(7, 10)
    /\ input.coll = GraphCollection(<<(<<>>), (<<>>)>>)
    /\ input.suggestions = <<DependencyRelationship(1, 2, "prerequisite", Conf(6, 10)),
                             DependencyRelationship(2, 1, "prerequisite", Conf(7, 10))>>
    /\ output.hi.applied_count = 1
    /\ output.hi.coll.tasks[1].dependencies = <<>>
    /\ output.hi.coll.tasks[2].dependencies = <<1>>

\* C8: from the same collection and suggestion list, the higher threshold
\* applies no more edges than the lower one, and the edges it adds are among
\* those the lower one adds.
C8_ThresholdMonotone ==
    (output.lo # NotRun /\ output.hi # NotRun) =>
        /\ output.hi.applied_count <= output.lo.applied_count
        /\ AddedEdges(input.coll, output.hi.coll) \subseteq
             AddedEdges(input.coll, output.lo.coll)

C8_Witness ==
    /\ output.lo # NotRun /\ output.hi # NotRun
    /\ input.th = [lo |-> Conf(5, 10), hi |-> Conf(9, 10)]
    /\ output.lo.applied_count = 2
    /\ output.hi.applied_count = 1

(***************************************************************************)
(* parser.p.py: _detect_brief_type.  A file name and a content are given   *)
(* by the patterns they contain as substrings (after lower()).             *)
(***************************************************************************)
BriefTypes == {"setup", "feature", "deployment"}

FilenamePatterns == {"setup", "project", "deployment", "deploy", "feature"}

setup_indicators ==
    {"project setup", "infrastructure", "cli structure", "technical requirements",
     "setup scope"}

deployment_indicators ==
    {"deployment", "testing", "documentation", "release", "quality assurance",
     "deployment goal"}

\* content checked before the file name
detect_brief_type_content_first(filename_has, content_has) ==
    IF content_has \cap setup_indicators # {} THEN "setup"
    ELSE IF content_has \cap deployment_indicators # {} THEN "deployment"
    ELSE IF "setup" \in filename_has \/ "project" \in filename_has THEN "setup"
    ELSE IF "deployment" \in filename_has \/ "deploy" \in filename_has THEN "deployment"
    ELSE "feature"

detect_brief_type(filename_has, content_has) ==
    IF "setup" \in filename_has \/ "project" \in filename_has THEN "setup"
    ELSE IF "deployment" \in filename_has \/ "deploy" \in filename_has THEN "deployment"
    ELSE IF "feature" \in filename_has THEN "feature"
    ELSE IF content_has \cap setup_indicators # {} THEN "setup"
    ELSE IF content_has \cap deployment_indicators # {} THEN "deployment"
    ELSE "feature"

\* a string that contains "deployment" contains "deploy"; one that contains
\* "deployment goal" contains "deployment"
DetectFilenames ==
    {f \in SUBSET FilenamePatterns : "deployment" \in f => "deploy" \in f}

DetectContents ==
    {c \in SUBSET (setup_indicators \cup deployment_indicators) :
        "deployment goal" \in c => "deployment" \in c}

InitDetect ==
    /\ pc = "input"
    /\ input \in {[filename |-> f, content |-> c] :
                    f \in DetectFilenames, c \in DetectContents}
    /\ output = <<>>
    /\ NoObjects

DetectBriefType ==
    /\ pc = "input"
    /\ output' = detect_brief_type(input.filename, input.content)
    /\ pc' = "detected"
    /\ UNCHANGED <<input, heap, mgr, gen>>

NextDetect == DetectBriefType

SpecDetect == InitDetect /\ [][NextDetect]_vars

\* the parts of the claim that do not depend on which file name wins
DetectCommon ==
    /\ output \in BriefTypes
    /\ (input.filename = {} /\ input.content = {}) => output = "feature"
    /\ input.filename # {} => output = detect_brief_type(input.filename, {})

\* C10 as stated: whatever else the file name contains, a file name with
\* "deployment" and a content without indicators of another type is
\* classified deployment; no file-name substring and no content keyword gives
\* feature; the result is one of the three types and the file name decides
\* before the content.
C10_AsStated ==
    pc = "detected" =>
        /\ DetectCommon
        /\ ("deployment" \in input.filename /\ input.content \cap setup_indicators = {})
              => output = "deployment"

\* C10 amended: the file name must contain neither "setup" nor "project",
\* which are tested first.
C10_DetectBriefType ==
    pc = "detected" =>
        /\ DetectCommon
        /\ ( /\ "deployment" \in input.filename
             /\ "setup" \notin input.filename /\ "project" \notin input.filename
             /\ input.content \cap setup_indicators = {})
              => output = "deployment"

C10_Witness ==
    /\ pc = "detected"
    /\ input.filename = {"deployment", "deploy"}
    /\ input.content = {"technical requirements"}
    /\ output = "deployment"

(***************************************************************************)
(* Keyword tests on text.  `keyword in text` is a substring test; every    *)
(* word of the vocabulary below is either a keyword of the source or       *)
(* contains none, and no word is part of a multi-word or hyphenated        *)
(* keyword, so a keyword occurs in a text exactly when one of the chunks   *)
(* is that word.                                                           *)
(***************************************************************************)
Vocabulary ==
    {"setup", "alpha", "beta", "gamma", "delta", "build", "requires", "test",
     "deploy", "then", "generated", ""}

TextHas(text, keyword) == \E i \in 1..Len(text) : text[i].w = keyword

TextHasAny(text, keywords) == \E k \in keywords : TextHas(text, k)

\* re.findall(r'\w+', text) as a set
WordSet(text) == {text[i].w : i \in 1..Len(text)} \ {""}

\* the chunk is exactly the keyword: no bold markers, no punctuation
ChunkIs(c, keyword) == c.w = keyword /\ ~c.b /\ c.s = ""

(***************************************************************************)
(* id_manager.py: TaskIDManager                                            *)
(***************************************************************************)
TypeOrder == [setup |-> 0, feature |-> 1, deployment |-> 2]

\* file names of the briefs, with their position in string order
FileNameRank ==
    [a_project |-> 1, b_notes |-> 2, c_deploy |-> 3, d_feature |-> 4]

BriefKeyLess(a, b) ==
    \/ TypeOrder[a.brief_type] < TypeOrder[b.brief_type]
    \/ /\ TypeOrder[a.brief_type] = TypeOrder[b.brief_type]
       /\ FileNameRank[a.file_name] < FileNameRank[b.file_name]

\* sorted(): stable insertion of brief x into an already sorted list
RECURSIVE InsertSorted(_, _)
InsertSorted(sorted, x) ==
    IF sorted = <<>> THEN <<x>>
    ELSE IF BriefKeyLess(x, Head(sorted)) THEN <<x>> \o sorted
    ELSE <<Head(sorted)>> \o InsertSorted(Tail(sorted), x)

RECURSIVE StableSort(_)
StableSort(q) ==
    IF q = <<>> THEN <<>>
    ELSE InsertSorted(StableSort(SubSeq(q, 1, Len(q) - 1)), q[Len(q)])

order_briefs(briefs) == StableSort(briefs)

\* the dict of _analyze_brief_dependencies; a type without entry maps to the
\* empty list, which is what every reader of the dict (.get(type, [])) sees,
\* also for the entries that the content scan adds with setdefault
analyze_brief_dependencies(briefs) ==
    LET brief_types == {briefs[i].brief_type : i \in 1..Len(briefs)}
    IN [t \in BriefTypes |->
          IF t = "feature" /\ "setup" \in brief_types THEN <<"setup">>
          ELSE IF t = "deployment"
          THEN (IF "setup" \in brief_types THEN <<"setup">> ELSE <<>>)
               \o (IF "feature" \in brief_types /\ "deployment" \in brief_types
                   THEN <<"feature">> ELSE <<>>)
          ELSE <<>>]

get_priority_for_brief_type(brief_type) ==
    IF brief_type = "deployment" THEN "MEDIUM" ELSE "HIGH"

TitleWordLimit == 6

\* position of the first ": " of the stripped string, 0 if there is none
FirstColon(task_desc) ==
    IF \E i \in 1..(Len(task_desc) - 1) : task_desc[i].s = ":"
    THEN SetMin({i \in 1..(Len(task_desc) - 1) : task_desc[i].s = ":"})
    ELSE 0

parse_task_description(task_desc) ==
    LET c == FirstColon(task_desc)
    IN IF c > 0
       THEN [title |-> [i \in 1..c |-> [w |-> task_desc[i].w, b |-> FALSE,
                                        s |-> IF i = c THEN "" ELSE task_desc[i].s]],
             description |-> SubSeq(task_desc, c + 1, Len(task_desc))]
       ELSE [title |-> IF Len(task_desc) > TitleWordLimit
                       THEN [i \in 1..TitleWordLimit |->
                               IF i = TitleWordLimit
                               THEN [task_desc[i] EXCEPT !.s = "..."]
                               ELSE task_desc[i]]
                       ELSE task_desc,
             description |-> task_desc]

high_priority_keywords ==
    {"critical", "essential", "foundation", "core", "must-have", "required",
     "setup", "infrastructure", "framework", "basic", "fundamental"}

low_priority_keywords ==
    {"optional", "nice-to-have", "enhancement", "improvement", "optimization",
     "polish", "extra", "bonus", "future"}

determine_task_priority(title, description, base_priority) ==
    IF TextHasAny(title \o description, high_priority_keywords) THEN "HIGH"
    ELSE IF TextHasAny(title \o description, low_priority_keywords) THEN "LOW"
    ELSE base_priority

type_keywords ==
    [setup |-> {"setup", "structure", "cli", "directory", "framework", "foundation",
                "install", "configure"},
     feature |-> {"implement", "create", "build", "feature", "functionality",
                  "interface", "component"},
     deployment |-> {"test", "documentation", "deploy", "release", "quality",
                     "error handling", "performance"}]

task_likely_from_brief_type(task, brief_type) ==
    TextHasAny(task.title \o task.description, type_keywords[brief_type])

\* for each prerequisite brief type, the highest ID among the matching tasks
RECURSIVE resolve_loop(_, _, _)
resolve_loop(brief_deps, i, coll) ==
    IF i > Len(brief_deps) THEN <<>>
    ELSE LET dep_tasks == {k \in Keys(coll) :
                             task_likely_from_brief_type(coll.tasks[k], brief_deps[i])}
         IN (IF dep_tasks # {} THEN <<SetMax(dep_tasks)>> ELSE <<>>)
            \o resolve_loop(brief_deps, i + 1, coll)

resolve_brief_dependencies(current_brief, brief_dependencies, coll) ==
    resolve_loop(brief_dependencies[current_brief.brief_type], 1, coll)

\* a first pass whose sequential dependency names the task that follows the
\* previous one, which is the task being created
determine_task_dependencies_on_next(task_index, previous_task_ids, brief_dependencies) ==
    (IF task_index = 0 /\ brief_dependencies # <<>> THEN brief_dependencies ELSE <<>>)
    \o (IF previous_task_ids # <<>> /\ task_index > 0
        THEN <<previous_task_ids[Len(previous_task_ids)] + 1>> ELSE <<>>)

\* task_index counts from 0 over all task strings of the brief
determine_task_dependencies(task_index, previous_task_ids, brief_dependencies) ==
    (IF task_index = 0 /\ brief_dependencies # <<>> THEN brief_dependencies ELSE <<>>)
    \o (IF previous_task_ids # <<>> /\ task_index > 0
        THEN <<previous_task_ids[Len(previous_task_ids)]>> ELSE <<>>)

\* the loop of _generate_tasks_for_brief from the task string at position i
\* (1-based) on; st is [raised, coll, ids]
RECURSIVE generate_loop(_, _, _, _)
generate_loop(brief, i, dependency_ids, st) ==
    IF i > Len(brief.tasks) \/ st.raised # "" THEN st
    ELSE IF IsBlank(brief.tasks[i]) THEN generate_loop(brief, i + 1, dependency_ids, st)
    ELSE LET parsed == parse_task_description(brief.tasks[i])
             r == create_task(st.coll, parsed.title, parsed.description,
                     determine_task_priority(parsed.title, parsed.description,
                         get_priority_for_brief_type(brief.brief_type)),
                     determine_task_dependencies(i - 1, st.ids, dependency_ids))
         IN generate_loop(brief, i + 1, dependency_ids,
                [raised |-> r.raised, coll |-> r.coll,
                 ids |-> IF r.raised = "" THEN Append(st.ids, r.id) ELSE st.ids])

generate_tasks_for_brief(brief, coll, brief_dependencies) ==
    generate_loop(brief, 1,
                  resolve_brief_dependencies(brief, brief_dependencies, coll),
                  [raised |-> "", coll |-> coll, ids |-> <<>>])

\* for brief in ordered_briefs: ...; an exception leaves the loop
RECURSIVE assign_loop(_, _, _, _)
assign_loop(ordered_briefs, i, brief_dependencies, st) ==
    IF i > Len(ordered_briefs) \/ st.raised # "" THEN st
    ELSE LET r == generate_tasks_for_brief(ordered_briefs[i], st.coll, brief_dependencies)
         IN assign_loop(ordered_briefs, i + 1, brief_dependencies,
                        [raised |-> r.raised, coll |-> r.coll])

(***************************************************************************)
(* Objects.  A TaskCollection is mutable and shared by reference: heap     *)
(* maps the references in use to the objects, 0 is None.  Objects that     *)
(* nothing refers to any more are dropped.                                 *)
(***************************************************************************)
None == 0

NewRef(used) == SetMin((1..(Cardinality(used) + 1)) \ used)

Collect(h, roots) == [r \in (DOMAIN h) \cap roots |-> h[r]]

HeapPut(h, ref, coll) == [r \in (DOMAIN h) \cup {ref} |-> IF r = ref THEN coll ELSE h[r]]

(***************************************************************************)
(* utils.py, id_manager.py: the existing tasks file and its loading.  A    *)
(* tasks file is absent (no path given), missing, not JSON, or holds data. *)
(***************************************************************************)
NoFile == [kind |-> "none"]

MissingFile == [kind |-> "missing"]

MalformedFile == [kind |-> "malformed"]

JsonFile(data) == [kind |-> "json", data |-> data]

\* FileHandler.read_tasks_json: [raised, data]
read_tasks_json(file) ==
    IF file.kind = "missing" THEN [raised |-> "", data |-> <<>>]
    ELSE IF file.kind = "malformed" THEN [raised |-> "FileIOError", data |-> <<>>]
    ELSE [raised |-> "", data |-> file.data]

FreshManager ==
    [existing_collection |-> None, existing_metadata |-> <<>>,
     next_available_id |-> 1, reserved_ids |-> {}]

\* _load_existing_tasks on a manager m: [raised, coll, m]; coll is the
\* collection object created, <<>> if none
load_existing_tasks(m, ref, file) ==
    LET rd == read_tasks_json(file)
        ld == from_tasks_json(rd.data, 3)
    IN IF rd.raised # "" \/ rd.data = <<>>
       THEN [raised |-> "", coll |-> <<>>, m |-> m]
       ELSE IF ld.raised # "" THEN [raised |-> ld.raised, coll |-> <<>>, m |-> m]
       ELSE [raised |-> "", coll |-> ld.coll,
             m |-> IF Keys(ld.coll) # {}
                   THEN [existing_collection |-> ref, existing_metadata |-> ld.metadata,
                         next_available_id |-> SetMax(Keys(ld.coll)) + 1,
                         reserved_ids |-> Keys(ld.coll)]
                   ELSE [m EXCEPT !.existing_collection = ref,
                                  !.existing_metadata = ld.metadata]]

\* TaskIDManager(existing_tasks_file): [raised, coll, m]
TaskIDManager_init(ref, file) ==
    IF file.kind = "none" THEN [raised |-> "", coll |-> <<>>, m |-> FreshManager]
    ELSE load_existing_tasks(FreshManager, ref, file)

\* an assignment that always starts from a new collection
assign_task_ids_fresh(m, h, ref, briefs) ==
    LET ordered_briefs == order_briefs(briefs)
        r == assign_loop(ordered_briefs, 1, analyze_brief_dependencies(ordered_briefs),
                 [raised |-> "", coll |-> [EmptyCollection EXCEPT !.next_id = m.next_available_id]])
    IN [raised |-> r.raised, ref |-> ref, h |-> HeapPut(h, ref, r.coll)]

\* assign_task_ids on manager m over heap h; ref is the reference a new
\* collection would get.  [raised, ref, h]: the collection worked on and the
\* heap afterwards (the collection is changed in place, also when the call
\* raises half-way)
assign_task_ids(m, h, ref, briefs) ==
    LET target == IF m.existing_collection # None THEN m.existing_collection ELSE ref
        start == IF m.existing_collection # None THEN h[m.existing_collection]
                 ELSE [EmptyCollection EXCEPT !.next_id = m.next_available_id]
        ordered_briefs == order_briefs(briefs)
        r == assign_loop(ordered_briefs, 1, analyze_brief_dependencies(ordered_briefs),
                         [raised |-> "", coll |-> start])
    IN [raised |-> r.raised, ref |-> target, h |-> HeapPut(h, target, r.coll)]

RECURSIVE next_free(_, _)
next_free(n, reserved) == IF n \in reserved THEN next_free(n + 1, reserved) ELSE n

\* get_next_available_id: the manager afterwards; the value returned is its
\* next_available_id
get_next_available_id(m) ==
    [m EXCEPT !.next_available_id = next_free(m.next_available_id, m.reserved_ids)]

reserve_id(m, task_id) ==
    [m EXCEPT !.reserved_ids = @ \cup {task_id},
              !.next_available_id = IF task_id >= @ THEN task_id + 1 ELSE @]

(***************************************************************************)
(* The TaskIDManager driven directly: construct it on a tasks file, then   *)
(* call assign_task_ids, reserve_id and get_next_available_id in any order *)
(***************************************************************************)
MaxTasks == 5

Bold(x) == [w |-> x, b |-> TRUE, s |-> ""]

BoldColon(x) == [w |-> x, b |-> TRUE, s |-> ":"]

\* task strings as a caller may write them
SetupAlpha == <<WdColon("setup"), Wd("alpha")>>          \* "setup: alpha"

BoldBuild == <<BoldColon("build"), Wd("gamma")>>         \* "**build**: gamma"

SevenWords ==                                            \* no ": ", 7 words
    <<Wd("alpha"), Wd("beta"), Wd("gamma"), Wd("delta"), Wd("alpha"), Wd("beta"),
      Wd("gamma")>>

TestDelta == <<Wd("test"), Wd("delta")>>                 \* "test delta"

NoTitle == <<WdColon(""), Wd("alpha")>>                  \* ": alpha"

BlankString == <<>>                                      \* "" or "   "

BriefContent(file_name, brief_type, title, description, tasks) ==
    [file_name |-> file_name, brief_type |-> brief_type, title |-> title,
     description |-> description, tasks |-> tasks]

IdsBriefs ==
    {BriefContent("a_project", "setup", <<Wd("setup")>>, <<Wd("alpha")>>,
                  <<SetupAlpha, TestDelta>>),
     BriefContent("a_project", "setup", <<Wd("setup")>>, <<Wd("alpha")>>,
                  <<BlankString, SetupAlpha, BoldBuild>>),
     BriefContent("d_feature", "feature", <<Wd("build")>>, <<Wd("gamma")>>,
                  <<BoldBuild, BlankString, SevenWords>>),
     BriefContent("d_feature", "feature", <<Wd("build")>>, <<Wd("gamma")>>,
                  <<SetupAlpha, NoTitle, TestDelta>>),
     BriefContent("d_feature", "feature", <<Wd("build")>>, <<Wd("gamma")>>,
                  <<BlankString, BoldBuild>>),
     BriefContent("c_deploy", "deployment", <<Wd("deploy")>>, <<Wd("delta")>>,
                  <<TestDelta>>),
     BriefContent("b_notes", "feature", <<Wd("alpha")>>, <<Wd("beta")>>, <<>>)}

\* no brief, one brief, two briefs of different files, or two setup briefs
\* that have the same file name in different directories
IdsBriefLists ==
    {<<>>} \cup {<<b>> : b \in IdsBriefs}
    \cup {q \in IdsBriefs \X IdsBriefs :
            /\ q[1].file_name # q[2].file_name
            /\ "b_notes" \notin {q[1].file_name, q[2].file_name}}
    \cup {q \in IdsBriefs \X IdsBriefs :
            q[1] # q[2] /\ q[1].file_name = "a_project" /\ q[2].file_name = "a_project"}

RECURSIVE SumLen(_)
SumLen(q) == IF q = <<>> THEN 0 ELSE Len(Head(q)) + SumLen(Tail(q))

TaskStrings(briefs) == SumLen([i \in 1..Len(briefs) |-> briefs[i].tasks])

GeneratedMetadata ==
    [name |-> DefaultName, description |-> PlainDescription, created |-> 1,
     updated |-> 2, total_tasks |-> 2, completed_tasks |-> 1]

\* collections written out by an earlier run
StoredCollections ==
    {[tasks |-> (1 :> NewTask(1, <<Wd("setup")>>, <<Wd("alpha")>>, "HIGH", <<>>, "DONE")
                 @@ 3 :> NewTask(3, <<Wd("build")>>, <<Wd("gamma")>>, "LOW", <<1>>, "TODO")),
      order |-> <<1, 3>>, next_id |-> 4],
     [tasks |-> (1 :> NewTask(1, PlainTitle, PlainDescription, "MEDIUM", <<>>, "IN_PROGRESS")
                 @@ 2 :> NewTask(2, <<Wd("test"), Wd("delta")>>, <<Wd("test"), Wd("delta")>>,
                                 "HIGH", <<1>>, "TODO")),
      order |-> <<1, 2>>, next_id |-> 3],
     EmptyCollection}

GeneratedFiles == {JsonFile(to_tasks_json(c, GeneratedMetadata)) : c \in StoredCollections}

\* a document whose only task has a priority that is no TaskPriority
InvalidFile ==
    JsonFile([master |-> [tasks |-> <<[id |-> 1, title |-> PlainTitle,
                                       description |-> PlainDescription,
                                       priority |-> "urgent"]>>]])

IdsFiles ==
    {NoFile, MissingFile, MalformedFile, JsonFile(<<>>), InvalidFile} \cup GeneratedFiles

InitIds ==
    /\ pc = "start"
    /\ input \in {[tasks_file |-> f] : f \in IdsFiles}
    /\ output = <<>>
    /\ NoObjects

Returned(op, raised, result, before, briefs) ==
    [op |-> op, raised |-> raised, result |-> result, before |-> before,
     briefs |-> briefs]

\* id_manager = TaskIDManager(existing_tasks_file)
NewTaskIDManager ==
    /\ pc = "start"
    /\ LET r == TaskIDManager_init(1, input.tasks_file)
       IN /\ output' = Returned("TaskIDManager", r.raised, None, <<>>, <<>>)
          /\ mgr' = IF r.raised = "" THEN r.m ELSE <<>>
          /\ heap' = IF r.raised = "" /\ r.m.existing_collection # None
                     THEN HeapPut(heap, 1, r.coll) ELSE heap
          /\ pc' = IF r.raised = "" THEN "loaded" ELSE "failed"
    /\ UNCHANGED <<input, gen>>

IdsRoots(m, result) == {m.existing_collection, result} \ {None}

\* the collection an assign_task_ids call on m starts from
StartOf(m, h) ==
    IF m.existing_collection # None THEN h[m.existing_collection]
    ELSE [EmptyCollection EXCEPT !.next_id = m.next_available_id]

\* collection = id_manager.assign_task_ids(briefs); the caller keeps the
\* reference returned, or the exception
AssignTaskIds ==
    /\ pc \in {"loaded", "noop", "noop_again", "assigned"}
    /\ \E briefs \in IdsBriefLists :
         /\ Cardinality(Keys(StartOf(mgr, heap))) + TaskStrings(briefs) <= MaxTasks
         /\ LET r == assign_task_ids(mgr, heap, NewRef({mgr.existing_collection} \ {None}),
                                     briefs)
                result == IF r.raised = "" THEN r.ref ELSE None
            IN /\ output' = Returned("assign_task_ids", r.raised, result,
                                     StartOf(mgr, heap), briefs)
               /\ heap' = Collect(r.h, IdsRoots(mgr, result))
               /\ pc' = IF briefs # <<>> \/ pc = "assigned" THEN "assigned"
                        ELSE IF pc = "loaded" THEN "noop" ELSE "noop_again"
    /\ UNCHANGED <<input, mgr, gen>>

\* the IDs a caller reserves: one below and one above the stored IDs' gap
ReservableIds == {2, 4}

ReserveId ==
    /\ pc \in {"loaded", "noop", "noop_again", "assigned"}
    /\ \E task_id \in ReservableIds :
         /\ mgr' = reserve_id(mgr, task_id)
         /\ output' = Returned("reserve_id", "", None, <<>>, <<>>)
    /\ heap' = Collect(heap, IdsRoots(mgr, None))
    /\ UNCHANGED <<pc, input, gen>>

GetNextAvailableId ==
    /\ pc \in {"loaded", "noop", "noop_again", "assigned"}
    /\ mgr' = get_next_available_id(mgr)
    /\ output' = Returned("get_next_available_id", "", None, <<>>, <<>>)
    /\ heap' = Collect(heap, IdsRoots(mgr, None))
    /\ UNCHANGED <<pc, input, gen>>

NextIds == NewTaskIDManager \/ AssignTaskIds \/ ReserveId \/ GetNextAvailableId

SpecIds == InitIds /\ [][NextIds]_vars

\* the strings of a brief that are not blank, in order
RECURSIVE NonBlank(_)
NonBlank(tasks) ==
    IF tasks = <<>> THEN <<>>
    ELSE (IF IsBlank(Head(tasks)) THEN <<>> ELSE <<Head(tasks)>>) \o NonBlank(Tail(tasks))

\* a task string from which Task(...) can be built
WellFormed(task_desc) ==
    LET p == parse_task_description(task_desc)
    IN ~IsEmptyText(p.title) /\ ~IsEmptyText(p.description)

\* the manager was built on a document that holds tasks, and the last call
\* was assign_task_ids on exactly one brief
AdditiveAssignOfOne ==
    /\ pc \in {"noop", "noop_again", "assigned"}
    /\ output.op = "assign_task_ids"
    /\ mgr.existing_collection # None
    /\ Keys(output.before) # {}
    /\ Len(output.briefs) = 1

\* C1: in a manager loaded from a document, with N the largest ID before an
\* assign_task_ids call on one brief whose non-blank task strings are
\* s1..sk: the call adds exactly the tasks N+1..N+k, task N+i built from si
\* (so in the order of the brief), and leaves every task that was there
\* unchanged under its ID: no ID is reused, shifted or skipped.  The call
\* raises exactly when some si has an empty title, and then it has added
\* the tasks for the strings before the first such si, numbered the same way.
C1_MonotonicIds ==
    AdditiveAssignOfOne =>
        LET before == output.before
            after == heap[mgr.existing_collection]
            N == SetMax(Keys(before))
            strings == NonBlank(output.briefs[1].tasks)
            bad == {i \in 1..Len(strings) : ~WellFormed(strings[i])}
            k == IF bad = {} THEN Len(strings) ELSE SetMin(bad) - 1
        IN /\ (output.raised = "") <=> (bad = {})
           /\ output.raised = "" => output.result = mgr.existing_collection
           /\ Keys(after) = Keys(before) \cup ((N + 1)..(N + k))
           /\ \A id \in Keys(before) : after.tasks[id] = before.tasks[id]
           /\ \A i \in 1..k :
                /\ after.tasks[N + i].id = N + i
                /\ after.tasks[N + i].title = parse_task_description(strings[i]).title
                /\ after.tasks[N + i].description
                       = parse_task_description(strings[i]).description
           /\ after.next_id = N + k + 1

\* a document with the IDs 1 and 3 got a brief of two tasks: they are 4 and 5
C1_Witness ==
    /\ AdditiveAssignOfOne
    /\ output.raised = ""
    /\ Keys(output.before) = {1, 3}
    /\ Len(NonBlank(output.briefs[1].tasks)) = 2
    /\ Keys(heap[mgr.existing_collection]) = {1, 3, 4, 5}

\* the tasks of a stored document, by ID
StoredTasks(data) ==
    [id \in {data.master.tasks[i].id : i \in 1..Len(data.master.tasks)} |->
        Task_from_dict(CHOOSE d \in Range(data.master.tasks) : d.id = id)]

\* C2: after loading a generated document, every assign_task_ids([]) - the
\* first and each repetition - returns the loaded collection with exactly the
\* tasks of the document: same IDs, titles, descriptions, priorities,
\* dependencies and statuses, and written out again the same task list.
C2_IdempotentIdSpace ==
    (pc \in {"noop", "noop_again"} /\ input.tasks_file \in GeneratedFiles) =>
        /\ mgr.existing_collection # None
        /\ heap[mgr.existing_collection].tasks = StoredTasks(input.tasks_file.data)
        /\ output.op = "assign_task_ids" =>
             /\ output.raised = ""
             /\ output.result # None
             /\ heap[output.result].tasks = StoredTasks(input.tasks_file.data)
             /\ to_tasks_json(heap[output.result], GeneratedMetadata).master.tasks
                    = input.tasks_file.data.master.tasks

\* assign_task_ids([]) was repeated on a document that holds tasks
C2_Witness ==
    /\ pc = "noop_again"
    /\ input.tasks_file \in GeneratedFiles
    /\ output.op = "assign_task_ids"
    /\ output.briefs = <<>>
    /\ Keys(heap[output.result]) = {1, 3}

(***************************************************************************)
(* dependency_mapper.py: the analysis passes.  A group of tasks is kept as *)
(* the set of its task IDs; a list of groups is the dict task_groups in    *)
(* insertion order.                                                        *)
(***************************************************************************)
dependency_keywords ==
    <<[type |-> "prerequisite",
       keywords |-> <<"requires", "needs", "depends on", "after", "once", "following">>],
      [type |-> "blocking",
       keywords |-> <<"before", "prior to", "must precede", "prerequisite for">>],
      [type |-> "sequential",
       keywords |-> <<"then", "next", "subsequently", "continue", "build on">>],
      [type |-> "optional",
       keywords |-> <<"optionally", "if needed", "consider", "may want to">>]>>

implementation_patterns ==
    <<[type |-> "foundation",
       patterns |-> {"setup", "initialize", "create structure", "establish", "configure"}],
      [type |-> "implementation",
       patterns |-> {"implement", "build", "create", "develop", "code"}],
      [type |-> "integration",
       patterns |-> {"integrate", "connect", "combine", "merge", "link"}],
      [type |-> "testing",
       patterns |-> {"test", "validate", "verify", "check", "ensure"}],
      [type |-> "documentation",
       patterns |-> {"document", "write docs", "create guide", "explain"}],
      [type |-> "deployment",
       patterns |-> {"deploy", "release", "publish", "distribute", "launch"}]>>

\* implementation_patterns.get(key, [])
PatternsOf(key) ==
    UNION {implementation_patterns[i].patterns :
             i \in {j \in 1..Len(implementation_patterns) :
                      implementation_patterns[j].type = key}}

\* brief_type_rules: priority, depends_on and internal_sequential with the
\* defaults of the .get calls that read them
RulePriority(brief_type) ==
    IF brief_type = "setup" THEN 1 ELSE IF brief_type = "feature" THEN 2
    ELSE IF brief_type = "deployment" THEN 3 ELSE 999

RuleDependsOn(brief_type) ==
    IF brief_type = "feature" THEN {"setup"}
    ELSE IF brief_type = "deployment" THEN {"setup", "feature"} ELSE {}

RuleInternalSequential(brief_type) == brief_type # "feature"

TaskText(t) == t.title \o t.description

RECURSIVE Flatten(_)
Flatten(q) == IF q = <<>> THEN <<>> ELSE Head(q) \o Flatten(Tail(q))

\* f"{brief.description} {' '.join(brief.tasks)}"
BriefText(brief) == brief.description \o Flatten(brief.tasks)

\* (title_overlap * 0.4) + (content_overlap * 0.4) + (type_matches * 0.2) > 0.3
\* for title_overlap = a/b and content_overlap = c/d.  The float sum exceeds
\* 0.3 exactly when the exact sum does, except where the exact sum is 0.3:
\* there the float sum is above 0.3 for every b <= 3, d <= 10, which covers
\* the briefs of this model.
ScoreAbove(a, b, c, d, type_matches) ==
    4 * a * d + 4 * c * b + 2 * type_matches * b * d >= 3 * b * d

task_belongs_to_brief(task, brief) ==
    LET task_words == WordSet(TaskText(task))
        brief_title_words == WordSet(brief.title)
        brief_words == WordSet(BriefText(brief))
    IN ScoreAbove(Cardinality(brief_title_words \cap task_words),
                  Max2(Cardinality(brief_title_words), 1),
                  Cardinality(brief_words \cap task_words),
                  Max2(Cardinality(brief_words), 1),
                  Cardinality({pt \in PatternsOf(brief.brief_type) :
                                 TextHas(TaskText(task), pt)}))

BriefKey(brief) == [type |-> brief.brief_type, name |-> brief.file_name]

UnassignedKey == [type |-> "", name |-> "unassigned"]

\* task_groups[key] = tasks
GroupPut(groups, key, tasks) ==
    IF \E i \in 1..Len(groups) : groups[i].key = key
    THEN [i \in 1..Len(groups) |->
            IF groups[i].key = key THEN [key |-> key, tasks |-> tasks] ELSE groups[i]]
    ELSE Append(groups, [key |-> key, tasks |-> tasks])

\* task_groups.get(key, [])
GroupGet(groups, key) ==
    UNION {groups[i].tasks : i \in {j \in 1..Len(groups) : groups[j].key = key}}

RECURSIVE group_loop(_, _, _, _)
group_loop(briefs, i, coll, groups) ==
    IF i > Len(briefs) THEN groups
    ELSE group_loop(briefs, i + 1, coll,
             GroupPut(groups, BriefKey(briefs[i]),
                      {k \in Keys(coll) : task_belongs_to_brief(coll.tasks[k], briefs[i])}))

group_tasks_by_brief(briefs, coll) ==
    LET groups == group_loop(briefs, 1, coll, <<>>)
        assigned_task_ids == UNION {groups[i].tasks : i \in 1..Len(groups)}
        unassigned_tasks == Keys(coll) \ assigned_task_ids
    IN IF unassigned_tasks # {} THEN GroupPut(groups, UnassignedKey, unassigned_tasks)
       ELSE groups

\* any(prereq in task_content for prereq in prerequisite_map.get(target_pattern, []))
is_prerequisite_pattern(task_content, target_pattern) ==
    TextHasAny(task_content,
        IF target_pattern = "implementation" THEN {"foundation", "setup"}
        ELSE IF target_pattern = "integration" THEN {"implementation", "foundation"}
        ELSE IF target_pattern = "testing" THEN {"implementation", "integration"}
        ELSE IF target_pattern = "documentation" THEN {"implementation", "testing"}
        ELSE IF target_pattern = "deployment" THEN {"testing", "documentation"}
        ELSE {})

\* the innermost loop of _analyze_task_content_dependencies: the other tasks
RECURSIVE content_other_loop(_, _, _, _, _)
content_other_loop(coll, tasks, i, j, pattern_type) ==
    IF j > Len(tasks) THEN <<>>
    ELSE (IF i # j /\ is_prerequisite_pattern(TaskText(coll.tasks[tasks[j]]), pattern_type)
          THEN <<DependencyRelationship(tasks[i], tasks[j], "prerequisite", Conf(7, 10))>>
          ELSE <<>>)
         \o content_other_loop(coll, tasks, i, j + 1, pattern_type)

RECURSIVE content_pattern_loop(_, _, _, _)
content_pattern_loop(coll, tasks, i, p) ==
    IF p > Len(implementation_patterns) THEN <<>>
    ELSE (IF TextHasAny(TaskText(coll.tasks[tasks[i]]), implementation_patterns[p].patterns)
          THEN content_other_loop(coll, tasks, i, 1, implementation_patterns[p].type)
          ELSE <<>>)
         \o content_pattern_loop(coll, tasks, i, p + 1)

\* tasks is the list of IDs of the group, sorted
analyze_task_content_dependencies(coll, tasks) ==
    Flatten([i \in 1..Len(tasks) |-> content_pattern_loop(coll, tasks, i, 1)])

\* a pass that chains the tasks of every group, whatever its brief type
within_group_chaining(coll, group) ==
    LET sorted_tasks == SortedSeq(group.tasks)
    IN IF Len(sorted_tasks) <= 1 THEN <<>>
       ELSE [i \in 1..(Len(sorted_tasks) - 1) |->
               DependencyRelationship(sorted_tasks[i + 1], sorted_tasks[i],
                                      "sequential", Conf(8, 10))]

\* the edges of one group in _analyze_within_brief_dependencies
within_group(coll, group) ==
    LET sorted_tasks == SortedSeq(group.tasks)
    IN IF Len(sorted_tasks) <= 1 THEN <<>>
       ELSE IF RuleInternalSequential(group.key.type)
       THEN [i \in 1..(Len(sorted_tasks) - 1) |->
               DependencyRelationship(sorted_tasks[i + 1], sorted_tasks[i],
                                      "sequential", Conf(8, 10))]
       ELSE analyze_task_content_dependencies(coll, sorted_tasks)

analyze_within_brief_dependencies(coll, task_groups) ==
    Flatten([g \in 1..Len(task_groups) |-> within_group(coll, task_groups[g])])

PriorityLess(a, b) == RulePriority(a.brief_type) < RulePriority(b.brief_type)

\* sorted(briefs, key=priority): stable
RECURSIVE InsertByPriority(_, _)
InsertByPriority(sorted, x) ==
    IF sorted = <<>> THEN <<x>>
    ELSE IF PriorityLess(x, Head(sorted)) THEN <<x>> \o sorted
    ELSE <<Head(sorted)>> \o InsertByPriority(Tail(sorted), x)

RECURSIVE SortByPriority(_)
SortByPriority(q) ==
    IF q = <<>> THEN <<>>
    ELSE InsertByPriority(SortByPriority(SubSeq(q, 1, Len(q) - 1)), q[Len(q)])

should_create_cross_brief_dependency(current_brief, prev_brief) ==
    \/ prev_brief.brief_type \in RuleDependsOn(current_brief.brief_type)
    \/ TextHasAny(BriefText(current_brief), WordSet(prev_brief.title))

\* for j in range(i): ...
RECURSIVE cross_prev_loop(_, _, _, _)
cross_prev_loop(sorted_briefs, task_groups, i, j) ==
    IF j >= i THEN <<>>
    ELSE LET current_tasks == GroupGet(task_groups, BriefKey(sorted_briefs[i]))
             prev_tasks == GroupGet(task_groups, BriefKey(sorted_briefs[j]))
         IN (IF /\ prev_tasks # {}
                /\ should_create_cross_brief_dependency(sorted_briefs[i], sorted_briefs[j])
             THEN <<DependencyRelationship(SetMin(current_tasks), SetMax(prev_tasks),
                                           "prerequisite", Conf(9, 10))>>
             ELSE <<>>)
            \o cross_prev_loop(sorted_briefs, task_groups, i, j + 1)

analyze_cross_brief_dependencies(briefs, task_groups) ==
    LET sorted_briefs == SortByPriority(briefs)
    IN Flatten([i \in 1..Len(sorted_briefs) |->
                  IF GroupGet(task_groups, BriefKey(sorted_briefs[i])) = {} THEN <<>>
                  ELSE cross_prev_loop(sorted_briefs, task_groups, i, 1)])

KeywordWindow == 10

\* _extract_keyword_context: the chunks around the first token that is
\* exactly the keyword; nothing if no token is
extract_keyword_context(content, keyword) ==
    LET hits == {i \in 1..Len(content) : ChunkIs(content[i], keyword)}
    IN IF hits = {} THEN <<>>
       ELSE LET keyword_index == SetMin(hits)
                start == Max2(1, keyword_index - KeywordWindow)
                end == IF keyword_index + KeywordWindow < Len(content)
                       THEN keyword_index + KeywordWindow ELSE Len(content)
            IN SubSeq(content, start, end)

\* _find_referenced_tasks: the (task, confidence) pairs, here already as the
\* relationships that _analyze_content_dependencies builds from them
RECURSIVE referenced_loop(_, _, _, _, _)
referenced_loop(coll, current, keyword, dep_type, ids) ==
    IF ids = <<>> THEN <<>>
    ELSE LET task_words == WordSet(TaskText(coll.tasks[Head(ids)]))
             context_words == WordSet(extract_keyword_context(
                                          TaskText(coll.tasks[current]), keyword))
             overlap == Cardinality(task_words \cap context_words)
         IN (IF Head(ids) # current /\ overlap >= 2
             THEN <<DependencyRelationship(current, Head(ids), dep_type,
                        ConfMin(Conf(9, 10), Conf(overlap, Cardinality(task_words))))>>
             ELSE <<>>)
            \o referenced_loop(coll, current, keyword, dep_type, Tail(ids))

\* for keyword in keywords: if keyword in content: ...
RECURSIVE keyword_loop(_, _, _, _)
keyword_loop(coll, current, kt, k) ==
    IF k > Len(dependency_keywords[kt].keywords) THEN <<>>
    ELSE (IF TextHas(TaskText(coll.tasks[current]), dependency_keywords[kt].keywords[k])
          THEN referenced_loop(coll, current, dependency_keywords[kt].keywords[k],
                               dependency_keywords[kt].type, SortedSeq(Keys(coll)))
          ELSE <<>>)
         \o keyword_loop(coll, current, kt, k + 1)

analyze_content_dependencies(coll) ==
    LET ids == SortedSeq(Keys(coll))
    IN Flatten([i \in 1..Len(ids) |->
                  Flatten([kt \in 1..Len(dependency_keywords) |->
                             keyword_loop(coll, ids[i], kt, 1)])])

\* graph: the nodes with outgoing edges in order of first appearance, and
\* the targets of each
GraphNodes(dependencies) ==
    LET first(n) == SetMin({i \in 1..Len(dependencies) : dependencies[i].from_task_id = n})
        nodes == {dependencies[i].from_task_id : i \in 1..Len(dependencies)}
    IN [k \in 1..Cardinality(nodes) |->
          CHOOSE n \in nodes : Cardinality({x \in nodes : first(x) < first(n)}) = k - 1]

RECURSIVE GraphTargets(_, _)
GraphTargets(dependencies, node) ==
    IF dependencies = <<>> THEN <<>>
    ELSE (IF Head(dependencies).from_task_id = node
          THEN <<Head(dependencies).to_task_id>> ELSE <<>>)
         \o GraphTargets(Tail(dependencies), node)

RECURSIVE mapper_has_cycle(_, _, _), mapper_has_cycle_neighbors(_, _, _, _)

\* the DFS of _detect_circular_dependencies.has_cycle
mapper_has_cycle(dependencies, node, st) ==
    IF node \in st.rec_stack THEN [r |-> TRUE, st |-> st]
    ELSE IF node \in st.visited THEN [r |-> FALSE, st |-> st]
    ELSE LET st1 == [visited |-> st.visited \cup {node},
                     rec_stack |-> st.rec_stack \cup {node}]
             x == mapper_has_cycle_neighbors(dependencies,
                                             GraphTargets(dependencies, node), 1, st1)
         IN IF x.r THEN x
            ELSE [r |-> FALSE, st |-> [x.st EXCEPT !.rec_stack = @ \ {node}]]

mapper_has_cycle_neighbors(dependencies, neighbors, i, st) ==
    IF i > Len(neighbors) THEN [r |-> FALSE, st |-> st]
    ELSE LET x == mapper_has_cycle(dependencies, neighbors[i], st)
         IN IF x.r THEN x
            ELSE mapper_has_cycle_neighbors(dependencies, neighbors, i + 1, x.st)

\* for node in graph: if node not in visited: if has_cycle(node): warn
RECURSIVE circular_loop(_, _, _, _)
circular_loop(dependencies, nodes, i, st) ==
    IF i > Len(nodes) THEN <<>>
    ELSE IF nodes[i] \in st.visited THEN circular_loop(dependencies, nodes, i + 1, st)
    ELSE LET x == mapper_has_cycle(dependencies, nodes[i], st)
         IN (IF x.r THEN <<nodes[i]>> ELSE <<>>)
            \o circular_loop(dependencies, nodes, i + 1, x.st)

\* a detection that starts the search at the first node of the graph only
detect_circular_from_first(dependencies) ==
    circular_loop(dependencies,
                  IF dependencies = <<>> THEN <<>> ELSE <<dependencies[1].from_task_id>>,
                  1, [visited |-> {}, rec_stack |-> {}])

\* the warnings, each as the task it names
detect_circular_dependencies(dependencies) ==
    circular_loop(dependencies, GraphNodes(dependencies), 1,
                  [visited |-> {}, rec_stack |-> {}])

\* DependencyAnalysis(suggested_dependencies, warnings)
analyze_dependencies(briefs, coll) ==
    LET task_groups == group_tasks_by_brief(briefs, coll)
        suggested == analyze_within_brief_dependencies(coll, task_groups)
                     \o analyze_cross_brief_dependencies(briefs, task_groups)
                     \o analyze_content_dependencies(coll)
    IN [suggested_dependencies |-> suggested,
        warnings |-> detect_circular_dependencies(suggested)]

(***************************************************************************)
(* parser.p.py: a brief file, as far as parsing looks at it: its name,     *)
(* whether it can be read, the type indicators its text holds, the type    *)
(* whose task section ("Core ... Tasks") it has, its H1 title, its         *)
(* description section and the list items of the task section.             *)
(***************************************************************************)
BriefFile(file_name, readable, content_has, section, title, description, items) ==
    [file_name |-> file_name, readable |-> readable, content_has |-> content_has,
     section |-> section, title |-> title, description |-> description,
     items |-> items]

Item(title, description) == [title |-> title, description |-> description]

\* the patterns of _detect_brief_type that each file name contains
FileNameHas ==
    [a_project |-> {"project"}, b_notes |-> {}, c_deploy |-> {"deploy"},
     d_feature |-> {"feature"}]

\* the indicators in the heading of the task section
HeadingIndicators(section) == IF section = "deployment" THEN {"deployment"} ELSE {}

\* f"{t.title}: {t.description}"
ItemString(item) ==
    (IF item.title = <<>> THEN <<WdColon("")>>
     ELSE [i \in 1..Len(item.title) |->
             IF i = Len(item.title) THEN [item.title[i] EXCEPT !.s = ":"]
             ELSE item.title[i]])
    \o item.description

\* parse_brief_file: [raised, brief]
parse_brief_file(file) ==
    LET brief_type == detect_brief_type(FileNameHas[file.file_name],
                          file.content_has \cup HeadingIndicators(file.section))
    IN IF ~file.readable \/ IsBlank(file.title) \/ IsEmptyText(file.title)
       THEN [raised |-> "FileIOError", brief |-> <<>>]
       ELSE [raised |-> "",
             brief |-> BriefContent(file.file_name, brief_type, file.title,
                          file.description,
                          IF file.section = brief_type
                          THEN [i \in 1..Len(file.items) |-> ItemString(file.items[i])]
                          ELSE <<>>)]

(***************************************************************************)
(* enhanced_generator.py: EnhancedTaskGenerator                            *)
(***************************************************************************)
NewGenerator ==
    [processed_briefs |-> <<>>, generated_collection |-> None,
     dependency_analysis |-> <<>>, generation_metadata |-> <<>>]

\* the parsing loop of process_brief_files: [raised, briefs]
RECURSIVE parse_loop(_, _, _)
parse_loop(brief_files, i, briefs) ==
    IF i > Len(brief_files) THEN [raised |-> "", briefs |-> briefs]
    ELSE LET r == parse_brief_file(brief_files[i])
         IN IF r.raised # "" THEN [raised |-> r.raised, briefs |-> briefs]
            ELSE parse_loop(brief_files, i + 1, Append(briefs, r.brief))

PipelineThreshold == Conf(7, 10)

\* _collect_generation_metadata, without the time stamp
collect_generation_metadata(briefs, coll) ==
    [briefs_processed |-> Len(briefs),
     tasks_generated |-> Cardinality(Keys(coll)),
     brief_files |-> [i \in 1..Len(briefs) |-> briefs[i].file_name]]

\* a last stage that raises when validation reports anything, as
\* TaskGenerator.generate_from_briefs does
process_validated_raising(briefs, assigned, analysis, coll) ==
    IF validate_dependencies(coll).errors # <<>>
    THEN [raised |-> "ValueError: validation", result |-> None, warnings |-> <<>>,
          h |-> HeapPut(assigned.h, assigned.ref, coll),
          g |-> [processed_briefs |-> briefs,
                 generated_collection |-> assigned.ref,
                 dependency_analysis |-> analysis,
                 generation_metadata |-> <<>>]]
    ELSE [raised |-> "", result |-> assigned.ref,
          warnings |-> <<>>,
          h |-> HeapPut(assigned.h, assigned.ref, coll),
          g |-> [processed_briefs |-> briefs,
                 generated_collection |-> assigned.ref,
                 dependency_analysis |-> analysis,
                 generation_metadata |-> collect_generation_metadata(briefs, coll)]]

\* process_brief_files from the validation on: the applied collection is
\* validated and stored, and the generator keeps the results
process_validated(briefs, assigned, analysis, coll) ==
    [raised |-> "", result |-> assigned.ref,
     warnings |-> validate_dependencies(coll).errors,
     h |-> HeapPut(assigned.h, assigned.ref, coll),
     g |-> [processed_briefs |-> briefs,
            generated_collection |-> assigned.ref,
            dependency_analysis |-> analysis,
            generation_metadata |-> collect_generation_metadata(briefs, coll)]]

\* process_brief_files from apply_dependencies on
process_analysed(briefs, assigned, analysis) ==
    process_validated(briefs, assigned, analysis,
        apply_dependencies(assigned.h[assigned.ref],
                           analysis.suggested_dependencies, PipelineThreshold).coll)

\* process_brief_files from analyze_dependencies on
process_assigned(g, briefs, assigned) ==
    IF assigned.raised # ""
    THEN [raised |-> assigned.raised, result |-> None, warnings |-> <<>>,
          h |-> assigned.h, g |-> [g EXCEPT !.processed_briefs = briefs]]
    ELSE process_analysed(briefs, assigned,
             analyze_dependencies(briefs, assigned.h[assigned.ref]))

\* a stage that, when a brief failed to parse, still assigns IDs to the tasks
\* of the briefs parsed before it
process_parsed_partial(g, m, h, ref, parsed) ==
    IF parsed.raised # ""
    THEN [raised |-> parsed.raised, result |-> None, warnings |-> <<>>,
          h |-> assign_task_ids(m, h, ref, parsed.briefs).h,
          g |-> [g EXCEPT !.processed_briefs = parsed.briefs]]
    ELSE process_assigned(g, parsed.briefs,
                          assign_task_ids(m, h, ref, parsed.briefs))

\* process_brief_files from assign_task_ids on
process_parsed(g, m, h, ref, parsed) ==
    IF parsed.raised # ""
    THEN [raised |-> parsed.raised, result |-> None, warnings |-> <<>>, h |-> h,
          g |-> [g EXCEPT !.processed_briefs = parsed.briefs]]
    ELSE process_assigned(g, parsed.briefs,
                          assign_task_ids(m, h, ref, parsed.briefs))

\* process_brief_files on generator g with ID manager m over heap h:
\* [raised, g, h, result, warnings]; warnings are the validation errors logged
process_brief_files(g, m, h, ref, brief_files) ==
    process_parsed(g, m, h, ref, parse_loop(brief_files, 1, <<>>))

\* _generate_project_description: the text is given by what it is built from
generate_project_description(briefs) ==
    IF briefs = <<>> THEN [kind |-> "default"]
    ELSE IF Len(briefs) = 1
    THEN [kind |-> "single", brief_type |-> briefs[1].brief_type, title |-> briefs[1].title]
    ELSE [kind |-> "several", count |-> Len(briefs),
          brief_types |-> {briefs[i].brief_type : i \in 1..Len(briefs)}]

\* the metadata generate_tasks_json writes at time now: the loaded metadata
\* object, updated in place, or a new one
tasks_json_metadata(g, m, coll, now) ==
    IF m.existing_metadata # <<>>
    THEN [m.existing_metadata EXCEPT
            !.updated = now,
            !.total_tasks = Cardinality(Keys(coll)),
            !.completed_tasks = Cardinality(get_completed_task_ids(coll))]
    ELSE [name |-> DefaultName,
          description |-> generate_project_description(g.processed_briefs),
          created |-> now, updated |-> now,
          total_tasks |-> Cardinality(Keys(coll)), completed_tasks |-> 0]

\* write_tasks_json: the output path must end in .json
write_tasks_json(path_is_json, data) ==
    IF path_is_json THEN [raised |-> "", written |-> data]
    ELSE [raised |-> "FileIOError", written |-> <<>>]

\* generate_tasks_json on generator g with ID manager m: [raised, written, m]
generate_tasks_json(g, m, h, path_is_json, now) ==
    IF g.generated_collection = None
    THEN [raised |-> "ValueError: not generated", written |-> <<>>, m |-> m]
    ELSE LET coll == h[g.generated_collection]
             metadata == tasks_json_metadata(g, m, coll, now)
             w == write_tasks_json(path_is_json, to_tasks_json(coll, metadata))
         IN [raised |-> w.raised, written |-> w.written,
             m |-> IF m.existing_metadata # <<>>
                   THEN [m EXCEPT !.existing_metadata = metadata] ELSE m]

(***************************************************************************)
(* The pipeline: an EnhancedTaskGenerator is constructed, fresh or on an   *)
(* existing tasks file, process_brief_files is called on lists of brief   *)
(* files, and generate_tasks_json ends the run.                            *)
(***************************************************************************)
T1(a) == <<Wd(a)>>

T2(a, b) == <<Wd(a), Wd(b)>>

SetupFiles ==
    {BriefFile("a_project", TRUE, {}, "setup", T1("setup"), T1("alpha"),
               <<Item(T1("setup"), T1("alpha")), Item(T1("setup"), T1("beta")),
                 Item(T1("setup"), T1("gamma"))>>),
     BriefFile("a_project", TRUE, {}, "setup", T1("setup"), T1("alpha"),
               <<Item(T1("setup"), T1("alpha")), Item(T1("alpha"), T1("beta")),
                 Item(T1("alpha"), T2("requires", "beta"))>>),
     BriefFile("a_project", TRUE, {}, "setup", T1("setup"), T1("alpha"),
               <<Item(T1("setup"), T1("alpha")), Item(T1("setup"), T1("beta")),
                 Item(T1("alpha"), T1("gamma"))>>),
     BriefFile("a_project", TRUE, {}, "setup", T1("setup"), T1("delta"),
               <<Item(T1("setup"), T1("alpha"))>>)}

FeatureFiles ==
    {BriefFile("d_feature", TRUE, {}, "feature", T1("build"), T1("gamma"),
               <<Item(T1("build"), T1("gamma")), Item(T1("build"), T1("delta"))>>),
     BriefFile("d_feature", TRUE, {}, "feature", T1("alpha"), T1("delta"),
               <<Item(T1("beta"), T1("gamma"))>>),
     BriefFile("d_feature", TRUE, {}, "feature", T1("build"), T1("gamma"),
               <<Item(T1("build"), T1("gamma")), Item(<<>>, T1("alpha"))>>),
     BriefFile("d_feature", TRUE, {}, "feature", T1("build"), T1("gamma"),
               <<Item(T1("build"), T1("setup"))>>)}

OtherFiles ==
    {BriefFile("c_deploy", TRUE, {"deployment"}, "deployment", T1("deploy"), T1("delta"),
               <<Item(T1("deploy"), T1("delta")), Item(T1("test"), T2("then", "deploy"))>>),
     BriefFile("b_notes", TRUE, {}, "setup", T1("alpha"), T1("beta"),
               <<Item(T1("alpha"), T1("beta"))>>),
     BriefFile("b_notes", FALSE, {}, "feature", T1("alpha"), T1("beta"), <<>>)}

PipelineFiles == SetupFiles \cup FeatureFiles \cup OtherFiles

\* no file, one file, a setup file with a feature file, two files in an
\* order that is not the processing order, a file with one that cannot be
\* read, or a setup, a feature and a deployment file
PipelineFileLists ==
    {<<>>} \cup {<<f>> : f \in PipelineFiles}
    \cup (SetupFiles \X FeatureFiles)
    \cup {q \in FeatureFiles \X SetupFiles : Len(q[1].items) + Len(q[2].items) = 2}
    \cup {q \in OtherFiles \X SetupFiles : q[1].readable /\ Len(q[2].items) = 1}
    \cup {q \in PipelineFiles \X PipelineFiles :
             /\ q[1].readable # q[2].readable
             /\ Len(q[1].items) + Len(q[2].items) = 1}
    \cup {q \in SetupFiles \X FeatureFiles \X OtherFiles :
             /\ q[3].section = "deployment"
             /\ Len(q[1].items) + Len(q[2].items) + Len(q[3].items) = 4}

ItemCount(brief_files) == SumLen([i \in 1..Len(brief_files) |-> brief_files[i].items])

\* a document in which task 2 lists itself as a dependency
SelfDependentFile ==
    JsonFile([master |-> [tasks |->
        <<[id |-> 1, title |-> T1("setup"), description |-> T1("alpha"),
           priority |-> "high", dependencies |-> <<>>, status |-> "done"],
          [id |-> 2, title |-> T1("alpha"), description |-> T1("beta"),
           priority |-> "medium", dependencies |-> <<1, 2>>, status |-> "to-do"],
          [id |-> 3, title |-> T1("build"), description |-> T1("gamma"),
           priority |-> "high", dependencies |-> <<2>>, status |-> "to-do"]>>]])

\* a document written by an earlier run, after task 3 was taken out of it:
\* task 4 still lists it as a dependency
EarlierRunFile ==
    JsonFile(to_tasks_json(
        [tasks |-> (1 :> NewTask(1, T1("setup"), T1("alpha"), "HIGH", <<>>, "DONE")
                    @@ 2 :> NewTask(2, T1("build"), T1("gamma"), "HIGH", <<1>>, "IN_PROGRESS")
                    @@ 4 :> NewTask(4, T1("test"), T1("delta"), "MEDIUM", <<2, 3>>, "TODO")),
         order |-> <<1, 2, 4>>, next_id |-> 5],
        GeneratedMetadata))

\* a document of three tasks that do not depend on each other
IndependentFile ==
    JsonFile([master |-> [tasks |->
        <<[id |-> 1, title |-> T1("setup"), description |-> T1("alpha"),
           priority |-> "high", dependencies |-> <<>>, status |-> "done"],
          [id |-> 2, title |-> T1("build"), description |-> T1("gamma"),
           priority |-> "low", dependencies |-> <<>>, status |-> "to-do"],
          [id |-> 3, title |-> T1("test"), description |-> T1("delta"),
           priority |-> "medium", dependencies |-> <<>>, status |-> "to-do"]>>,
        metadata |-> ProjectMetadata_to_dict(GeneratedMetadata)]])

SessionFiles ==
    {NoFile, MalformedFile, SelfDependentFile, EarlierRunFile, IndependentFile}

Init ==
    /\ pc = "start"
    /\ input \in {[tasks_file |-> f] : f \in SessionFiles}
    /\ output = <<>>
    /\ NoObjects

\* generator = EnhancedTaskGenerator(existing_tasks_file)
NewEnhancedTaskGenerator ==
    /\ pc = "start"
    /\ LET r == TaskIDManager_init(1, input.tasks_file)
       IN /\ output' = [op |-> "EnhancedTaskGenerator", raised |-> r.raised,
                        result |-> None, warnings |-> <<>>,
                        brief_files |-> <<>>]
          /\ mgr' = IF r.raised = "" THEN r.m ELSE <<>>
          /\ gen' = IF r.raised = "" THEN NewGenerator ELSE <<>>
          /\ heap' = IF r.raised = "" /\ r.m.existing_collection # None
                     THEN HeapPut(heap, 1, r.coll) ELSE heap
          /\ pc' = IF r.raised = "" THEN "ready" ELSE "failed"
    /\ UNCHANGED input

PipelineRoots(m, g, result) ==
    {m.existing_collection, g.generated_collection, result} \ {None}

\* collection = generator.process_brief_files(brief_files)
ProcessBriefFiles ==
    /\ pc \in {"ready", "processed"}
    /\ \E brief_files \in PipelineFileLists :
         /\ Cardinality(Keys(StartOf(mgr, heap))) + ItemCount(brief_files) <= MaxTasks
         /\ \E r \in {process_brief_files(gen, mgr, heap,
                          NewRef(PipelineRoots(mgr, gen, None)), brief_files)} :
               /\ output' = [op |-> "process_brief_files", raised |-> r.raised,
                             result |-> r.result, warnings |-> r.warnings,
                             brief_files |-> brief_files]
               /\ gen' = r.g
               /\ heap' = Collect(r.h, PipelineRoots(mgr, r.g, r.result))
    /\ pc' = "processed"
    /\ UNCHANGED <<input, mgr>>

\* generator.generate_tasks_json(output_path), the last call of a run
GenerateTasksJson ==
    /\ pc \in {"ready", "processed"}
    /\ \E path_is_json \in BOOLEAN :
         \E r \in {generate_tasks_json(gen, mgr, heap, path_is_json, 4)} :
            /\ output' = [op |-> "generate_tasks_json", raised |-> r.raised,
                          result |-> None, warnings |-> <<>>, brief_files |-> <<>>,
                          written |-> r.written]
            /\ mgr' = r.m
    /\ pc' = "saved"
    /\ UNCHANGED <<input, heap, gen>>

Next == NewEnhancedTaskGenerator \/ ProcessBriefFiles \/ GenerateTasksJson

Spec == Init /\ [][Next]_vars

(***************************************************************************)
(* Properties of the collection returned by process_brief_files            *)
(***************************************************************************)
\* process_brief_files has just returned a collection
PipelineReturned ==
    /\ pc = "processed"
    /\ output.op = "process_brief_files"
    /\ output.raised = ""

\* the tasks of the returned collection that list themselves as a dependency
SelfDependent(coll) ==
    {k \in Keys(coll) : Contains(coll.tasks[k].dependencies, k)}

\* the tasks of the loaded document that list themselves as a dependency
LoadedSelfDependent(file) ==
    LET r == read_tasks_json(file)
    IN IF file.kind # "json" \/ r.data = <<>> THEN {}
       ELSE {k \in DOMAIN StoredTasks(r.data) :
                Contains(StoredTasks(r.data)[k].dependencies, k)}

\* C3 as stated: no task of a collection returned by process_brief_files, in a
\* fresh session or in an additive session that starts from a loaded
\* document, has its own ID among its dependencies.
C3_NoSelfDependency ==
    PipelineReturned => SelfDependent(heap[output.result]) = {}

\* C3 amended: process_brief_files adds no self-dependency.  A task of the
\* returned collection has its own ID among its dependencies only if the
\* loaded document already listed it there; in a fresh session no task has.
C3_NoSelfDependencyAdded ==
    PipelineReturned =>
        SelfDependent(heap[output.result]) \subseteq LoadedSelfDependent(input.tasks_file)

\* an additive session on the document in which task 2 depends on itself: two
\* briefs were processed, tasks 4 and 5 were added, and task 2 is the only
\* task of the returned collection that depends on itself
C3_Witness ==
    /\ PipelineReturned
    /\ input.tasks_file = SelfDependentFile
    /\ Len(gen.processed_briefs) = 2
    /\ Keys(heap[output.result]) = 1..5
    /\ SelfDependent(heap[output.result]) = {2}

\* the setup brief and the feature brief of the end-to-end scenario
ScenarioBriefs(briefs, m, n) ==
    /\ Len(briefs) = 2
    /\ briefs[1].brief_type = "setup" /\ Len(briefs[1].tasks) = m
    /\ briefs[2].brief_type = "feature" /\ Len(briefs[2].tasks) = n

\* C9: in a fresh session, one setup brief with 3 tasks and one feature brief
\* with 2 tasks give a collection with the IDs 1..5 in which task 4, the first
\* feature task, has task 3, the last setup task, among its dependencies, and
\* get_unlocked_tasks returns exactly task 1.
C9_EndToEnd ==
    (/\ PipelineReturned
     /\ input.tasks_file = NoFile
     /\ ScenarioBriefs(gen.processed_briefs, 3, 2))
    => LET coll == heap[output.result]
       IN /\ Keys(coll) = 1..5
          /\ Contains(coll.tasks[4].dependencies, 3)
          /\ get_unlocked_tasks(coll) = {1}

(***************************************************************************)
(* A TaskCollection on which add_task and create_task are called           *)
(***************************************************************************)
MaxInsertId == 3

\* dependency lists of up to two distinct IDs, in increasing order
InsertDeps ==
    {<<>>} \cup {<<a>> : a \in 1..MaxInsertId}
    \cup {q \in (1..MaxInsertId) \X (1..MaxInsertId) : q[1] < q[2]}

InsertTitles == {PlainTitle, BlankString}

InitInsert ==
    /\ pc = "created"
    /\ input = <<>>
    /\ output = <<>>
    /\ heap = <<EmptyCollection>>
    /\ mgr = <<>>
    /\ gen = <<>>

\* collection.add_task(Task(id, ..., dependencies))
AddTask ==
    /\ \E id \in 1..MaxInsertId, dependencies \in InsertDeps :
         \E r \in {add_task(heap[1], NewTask(id, PlainTitle, PlainDescription,
                                             "MEDIUM", dependencies, "TODO"))} :
            /\ output' = [op |-> "add_task", raised |-> r.raised, id |-> id,
                          title |-> PlainTitle, dependencies |-> dependencies]
            /\ heap' = <<r.coll>>
    /\ pc' = "called"
    /\ UNCHANGED <<input, mgr, gen>>

\* collection.create_task(title, description, priority, dependencies)
CreateTask ==
    /\ heap[1].next_id <= MaxInsertId
    /\ \E title \in InsertTitles, dependencies \in InsertDeps :
         \E r \in {create_task(heap[1], title, PlainDescription, "MEDIUM", dependencies)} :
            /\ output' = [op |-> "create_task", raised |-> r.raised,
                          id |-> heap[1].next_id, title |-> title,
                          dependencies |-> dependencies]
            /\ heap' = <<r.coll>>
    /\ pc' = "called"
    /\ UNCHANGED <<input, mgr, gen>>

NextInsert == AddTask \/ CreateTask

SpecInsert == InitInsert /\ [][NextInsert]_vars

\* the call recorded in o is one that the collection before must reject
MustReject(before, o) ==
    \/ o.id \in Keys(before)
    \/ \E i \in 1..Len(o.dependencies) : o.dependencies[i] \notin Keys(before)
    \/ ~TaskIsValid(o.id, o.title, PlainDescription)

\* C11: add_task, and create_task through it, raises exactly when the ID is
\* already in the collection or some dependency ID is not in it (or the task
\* itself is invalid); when it raises, the collection - task map, order and
\* next-ID counter - is unchanged; when it succeeds, the task is stored under
\* its ID with the dependencies given and every other task is untouched.
C11_InsertionInvariants ==
    [][LET before == heap[1]
           after == heap'[1]
           o == output'
       IN /\ (o.raised # "") <=> MustReject(before, o)
          /\ o.raised # "" => after = before
          /\ o.raised = "" =>
               /\ Keys(after) = Keys(before) \cup {o.id}
               /\ after.tasks[o.id] = NewTask(o.id, o.title, PlainDescription,
                                              "MEDIUM", o.dependencies, "TODO")
               /\ \A k \in Keys(before) : after.tasks[k] = before.tasks[k]
               /\ after.next_id = Max2(before.next_id, o.id + 1)]_vars

\* add_task of a task with an existing and a missing dependency was rejected
\* by a collection that holds tasks 1 and 3
C11_Witness ==
    /\ pc = "called"
    /\ output.op = "add_task"
    /\ output.raised = "ValueError: dependency"
    /\ output.dependencies = <<1, 2>>
    /\ output.id = 2
    /\ Keys(heap[1]) = {1, 3}

\* the kinds of validation error in a list of errors
ErrorKinds(errors) == {errors[i].kind : i \in 1..Len(errors)}

\* C12: process_brief_files raises only what parsing a brief (FileIOError) or
\* creating a task (ValueError of Task) raises.  A call that got past both
\* returns the collection, keeps it as generated_collection for
\* generate_tasks_json, and hands back what validate_dependencies reports on
\* it - self-dependency, missing dependency, cycle - as warnings.
C12_ValidationNeverFatal ==
    (pc = "processed" /\ output.op = "process_brief_files") =>
        /\ output.raised \in {"", "FileIOError", "ValueError: task"}
        /\ output.raised = "" =>
             /\ output.result # None
             /\ gen.generated_collection = output.result
             /\ output.warnings = validate_dependencies(heap[output.result]).errors
             /\ Len(gen.processed_briefs) = gen.generation_metadata.briefs_processed

\* a brief was processed on the document with the missing task 3, and the
\* call returned the collection with a missing-dependency warning
C12_Witness ==
    /\ PipelineReturned
    /\ input.tasks_file = EarlierRunFile
    /\ Len(gen.processed_briefs) = 1
    /\ Cardinality(Keys(heap[output.result])) = 4
    /\ "missing" \in ErrorKinds(output.warnings)

\* some file of the batch fails to parse
HasBadBrief(brief_files) ==
    \E i \in 1..Len(brief_files) : parse_brief_file(brief_files[i]).raised # ""

\* C13: when some file of the batch fails to parse, process_brief_files
\* raises the parsing error and generates nothing from any file of the batch:
\* no collection gains or loses a task, the ID manager is as before, and
\* generated_collection is the one of before the call.
C13_BadBriefAbortsBatch ==
    [][(output'.op = "process_brief_files" /\ HasBadBrief(output'.brief_files)) =>
          /\ output'.raised = "FileIOError"
          /\ output'.result = None
          /\ heap' = heap
          /\ mgr' = mgr
          /\ gen'.generated_collection = gen.generated_collection]_vars

\* after a call that added a task to the loaded document, a batch of a
\* readable brief followed by an unreadable one raised: the first brief was
\* parsed, and generated_collection is still the collection of four tasks
C13_Witness ==
    /\ pc = "processed"
    /\ output.op = "process_brief_files"
    /\ output.raised = "FileIOError"
    /\ input.tasks_file = EarlierRunFile
    /\ Len(output.brief_files) = 2
    /\ Len(gen.processed_briefs) = 1
    /\ Len(gen.processed_briefs[1].tasks) = 1
    /\ gen.generated_collection # None
    /\ Keys(heap[gen.generated_collection]) = {1, 2, 4, 5}

\* C14: when the existing tasks document cannot be read as JSON, the error
\* reaches the caller of the constructor and the run ends there: no generator
\* comes to be, and process_brief_files never runs as in a fresh session.
C14_FileErrorAborts ==
    (input.tasks_file = MalformedFile /\ pc # "start") =>
        /\ pc = "failed"
        /\ output.op = "EnhancedTaskGenerator"
        /\ output.raised = "FileIOError"

\* the tasks of a collection whose dependency list names some ID twice
RepeatedDependencies(coll) ==
    {k \in Keys(coll) :
        \E d \in Range(coll.tasks[k].dependencies) :
            Occurrences(coll.tasks[k].dependencies, d) > 1}

\* C15: in a collection that process_brief_files returns in a fresh session -
\* tasks created by the ID manager, edges added by apply_dependencies - no
\* task's dependency list names the same ID twice.
C15_NoRepeatedDependency ==
    (PipelineReturned /\ input.tasks_file = NoFile) =>
        RepeatedDependencies(heap[output.result]) = {}

\* C16: a second process_brief_files call on the same generator with the same
\* brief files returns a collection equal to the one the first call returned:
\* the tasks the first call created are neither carried into the second call
\* nor created again, in fresh and in additive sessions.
C16_NoSharedState ==
    [][(/\ pc = "processed" /\ output.op = "process_brief_files"
        /\ output'.op = "process_brief_files"
        /\ output.raised = "" /\ output'.raised = ""
        /\ output'.brief_files = output.brief_files)
       => heap'[output'.result] = heap[output.result]]_vars

\* the outcome of assign_task_ids on the collection start for the list briefs
AssignOutcome(start, briefs) ==
    assign_loop(order_briefs(briefs), 1,
                analyze_brief_dependencies(order_briefs(briefs)),
                [raised |-> "", coll |-> start])

\* the lists that hold the briefs of q in some order
Reorderings(q) ==
    {[i \in 1..Len(q) |-> q[f[i]]] :
        f \in {g \in [1..Len(q) -> 1..Len(q)] :
                 \A i, j \in 1..Len(q) : g[i] = g[j] => i = j}}

\* C17: assign_task_ids processes the briefs in (type priority, file name)
\* order whatever the order they are passed in: the collection it returns, IDs
\* and dependencies included, is the one every permutation of the input list
\* gives.
C17_DeterministicOrdering ==
    (output # <<>> /\ output.op = "assign_task_ids" /\ output.raised = "")
    => /\ heap[output.result] = AssignOutcome(output.before, output.briefs).coll
       /\ \A p \in Reorderings(output.briefs) :
             AssignOutcome(output.before, p) = AssignOutcome(output.before, output.briefs)

\* the collection as brief number k of the ordered list is reached
BeforeBrief(start, ordered_briefs, k) ==
    assign_loop(SubSeq(ordered_briefs, 1, k - 1), 1,
                analyze_brief_dependencies(ordered_briefs),
                [raised |-> "", coll |-> start]).coll

\* the IDs of the tasks created from brief number k, in creation order
CreatedFrom(start, ordered_briefs, k) ==
    generate_tasks_for_brief(ordered_briefs[k], BeforeBrief(start, ordered_briefs, k),
                             analyze_brief_dependencies(ordered_briefs)).ids

\* the anchors of brief number k: per prerequisite brief type the highest-ID
\* task, among those created before the brief, that matches the type
Anchors(start, ordered_briefs, k) ==
    resolve_brief_dependencies(ordered_briefs[k],
                               analyze_brief_dependencies(ordered_briefs),
                               BeforeBrief(start, ordered_briefs, k))

FirstPassShape(coll, ids, anchors) ==
    \A j \in 1..Len(ids) :
        coll.tasks[ids[j]].dependencies = IF j = 1 THEN anchors ELSE <<ids[j - 1]>>

\* C18: after assign_task_ids the first task created from a brief has exactly
\* the anchors of the brief as its dependencies, and every later task created
\* from the brief has exactly one dependency, the task created just before it
\* from that brief, also when blank task strings of the brief were skipped.
C18_FirstPassShape ==
    (output # <<>> /\ output.op = "assign_task_ids" /\ output.raised = "")
    => \A k \in 1..Len(output.briefs) :
          FirstPassShape(heap[output.result],
                         CreatedFrom(output.before, order_briefs(output.briefs), k),
                         Anchors(output.before, order_briefs(output.briefs), k))

\* the groups the mapper formed in the call that returned
ReturnedGroups == group_tasks_by_brief(gen.processed_briefs, heap[output.result])

\* edge e goes from a task of the group to the task of the group with the
\* next lower ID
ChainEdgeOf(e, group) ==
    /\ Cardinality(group.tasks) > 1
    /\ e.from_task_id \in group.tasks
    /\ {t \in group.tasks : t < e.from_task_id} # {}
    /\ e.to_task_id = SetMax({t \in group.tasks : t < e.from_task_id})

\* the edges of the intra-brief pass of the call that returned
WithinEdges == analyze_within_brief_dependencies(heap[output.result], ReturnedGroups)

\* C19: the intra-brief pass of analyze_dependencies suggests a sequential
\* edge (confidence 0.8) only inside a group of more than one task whose brief
\* type is setup or deployment, from a task to the task with the next lower ID
\* in that group; feature groups and the _unassigned bucket give no
\* sequential edge.
C19_SequentialEdges ==
    PipelineReturned
    => /\ SubSeq(gen.dependency_analysis.suggested_dependencies, 1, Len(WithinEdges))
          = WithinEdges
       /\ \A i \in 1..Len(WithinEdges) :
             WithinEdges[i].relationship_type = "sequential"
             => /\ WithinEdges[i].confidence = Conf(8, 10)
                /\ \E g \in 1..Len(ReturnedGroups) :
                      /\ ReturnedGroups[g].key.type \in {"setup", "deployment"}
                      /\ ChainEdgeOf(WithinEdges[i], ReturnedGroups[g])

\* what the intra-brief pass does: it suggests a sequential edge (confidence
\* 0.8) only inside a group of more than one task whose brief type is setup or
\* deployment or that is the _unassigned bucket, which has no configured type
\* and takes the default, from a task to the task with the next lower ID in
\* that group; feature groups give no sequential edge.
C19_SequentialEdgesOrUnassigned ==
    PipelineReturned
    => /\ SubSeq(gen.dependency_analysis.suggested_dependencies, 1, Len(WithinEdges))
          = WithinEdges
       /\ \A i \in 1..Len(WithinEdges) :
             WithinEdges[i].relationship_type = "sequential"
             => /\ WithinEdges[i].confidence = Conf(8, 10)
                /\ \E g \in 1..Len(ReturnedGroups) :
                      /\ \/ ReturnedGroups[g].key.type \in {"setup", "deployment"}
                         \/ ReturnedGroups[g].key = UnassignedKey
                      /\ ChainEdgeOf(WithinEdges[i], ReturnedGroups[g])

\* a call whose groups are a setup group that gives a sequential edge, a
\* feature group of two tasks and an _unassigned bucket of two tasks
C19_Witness ==
    /\ PipelineReturned
    /\ \E i \in 1..Len(WithinEdges), g, f, u \in 1..Len(ReturnedGroups) :
          /\ WithinEdges[i].relationship_type = "sequential"
          /\ ReturnedGroups[g].key.type = "setup"
          /\ ChainEdgeOf(WithinEdges[i], ReturnedGroups[g])
          /\ ReturnedGroups[f].key.type = "feature"
          /\ Cardinality(ReturnedGroups[f].tasks) > 1
          /\ ReturnedGroups[u].key = UnassignedKey
          /\ Cardinality(ReturnedGroups[u].tasks) > 1

\* the edges from_task_id -> to_task_id of a list of suggestions
SuggestedEdges(dependencies) ==
    {<<dependencies[i].from_task_id, dependencies[i].to_task_id>> :
        i \in 1..Len(dependencies)}

\* the suggestions of the three passes for the call that returned, one after
\* the other
PassSuggestions ==
    WithinEdges
    \o analyze_cross_brief_dependencies(gen.processed_briefs, ReturnedGroups)
    \o analyze_content_dependencies(heap[output.result])

\* C20: analyze_dependencies returns at least one circular-dependency warning
\* if and only if the suggested edges from_task_id -> to_task_id, self-edges
\* included, contain a directed cycle, and the suggestions it returns are
\* those of the passes, none removed or altered by the detection.
C20_MapperCycleDetection ==
    PipelineReturned
    => /\ gen.dependency_analysis.warnings # <<>>
          <=> HasDirectedCycle(SuggestedEdges(gen.dependency_analysis.suggested_dependencies))
       /\ gen.dependency_analysis.suggested_dependencies = PassSuggestions

\* a call whose suggestions hold a cycle over two tasks and no self-edge, and
\* that returned a warning together with all the suggestions
C20_Witness ==
    /\ PipelineReturned
    /\ gen.dependency_analysis.warnings # <<>>
    /\ \E a, b \in Keys(heap[output.result]) :
          /\ a # b
          /\ {<<a, b>>, <<b, a>>}
               \subseteq SuggestedEdges(gen.dependency_analysis.suggested_dependencies)
    /\ \A e \in SuggestedEdges(gen.dependency_analysis.suggested_dependencies) : e[1] # e[2]
    /\ gen.dependency_analysis.suggested_dependencies = PassSuggestions

\* task n lies on a directed cycle of the edge set E
OnCycle(E, n) == n \in ReachableFrom(E, Successors(E, {n}))

\* C21: every task named in a circular-dependency warning of the mapper lies
\* on a directed cycle of the suggested edges, and every task that lies on
\* such a cycle is named in exactly one warning.
C21_WarningPerCycleNode ==
    PipelineReturned
    => LET E == SuggestedEdges(gen.dependency_analysis.suggested_dependencies)
           warnings == gen.dependency_analysis.warnings
       IN /\ \A i \in 1..Len(warnings) : OnCycle(E, warnings[i])
          /\ \A n \in Keys(heap[output.result]) :
                OnCycle(E, n) => Occurrences(warnings, n) = 1

\* the number of dependency entries over all tasks
RECURSIVE SumOver(_, _)
SumOver(f, S) ==
    IF S = {} THEN 0
    ELSE LET x == CHOOSE y \in S : TRUE IN f[x] + SumOver(f, S \ {x})

TotalDependencies(coll) ==
    SumOver([k \in Keys(coll) |-> Len(coll.tasks[k].dependencies)], Keys(coll))

\* the result r of a call on input.coll only added, and counted what it added
OnlyAdds(r) ==
    /\ r.applied_count = TotalDependencies(r.coll) - TotalDependencies(input.coll)
    /\ Keys(r.coll) = Keys(input.coll)
    /\ r.coll.order = input.coll.order /\ r.coll.next_id = input.coll.next_id
    /\ \A k \in Keys(input.coll) :
          LET old == input.coll.tasks[k]
              new == r.coll.tasks[k]
          IN /\ [new EXCEPT !.dependencies = old.dependencies] = old
             /\ Len(new.dependencies) >= Len(old.dependencies)
             /\ SubSeq(new.dependencies, 1, Len(old.dependencies)) = old.dependencies
             /\ \A i \in (Len(old.dependencies) + 1)..Len(new.dependencies) :
                   /\ new.dependencies[i] # k
                   /\ \A j \in 1..(i - 1) : new.dependencies[j] # new.dependencies[i]

\* C22: apply_dependencies returns the increase of the total number of
\* dependency entries; it adds no self-edge and no edge already present,
\* removes no dependency, creates or deletes no task and changes no title,
\* description, priority or status.
C22_ApplyOnlyAdds ==
    /\ output.lo # NotRun => OnlyAdds(output.lo)
    /\ output.hi # NotRun => OnlyAdds(output.hi)

\* one suggestion repeats an edge the task has, one adds an edge
C22_Witness ==
    /\ output.hi # NotRun
    /\ input.th.hi = Conf(7, 10)
    /\ input.coll = GraphCollection(<<(<<2>>), (<<>>)>>)
    /\ input.suggestions = <<DependencyRelationship(1, 2, "prerequisite", Conf(9, 10)),
                             DependencyRelationship(2, 1, "prerequisite", Conf(9, 10))>>
    /\ output.hi.applied_count = 1
    /\ output.hi.coll.tasks[1].dependencies = <<2>>
    /\ output.hi.coll.tasks[2].dependencies = <<1>>

\* the IDs of the tasks the assign_task_ids call that returned has created
CreatedIds == Keys(heap[output.result]) \ Keys(output.before)

\* C23: no task created by assign_task_ids receives an ID that reserve_id has
\* reserved on the manager before, fresh or loaded from a document, and
\* get_next_available_id never returns a reserved ID.
C23_ReservedIdsRespected ==
    /\ (output # <<>> /\ output.op = "assign_task_ids" /\ output.raised = "")
       => CreatedIds \cap mgr.reserved_ids = {}
    /\ (output # <<>> /\ output.op = "get_next_available_id")
       => mgr.next_available_id \notin mgr.reserved_ids

\* the run loaded a document, processed no brief and created no task, and
\* generate_tasks_json has written the collection
NoOpRunSaved ==
    /\ pc = "saved" /\ output.raised = ""
    /\ input.tasks_file.kind = "json"
    /\ gen.processed_briefs = <<>>
    /\ Keys(heap[gen.generated_collection]) = DOMAIN StoredTasks(input.tasks_file.data)

\* C24: an additive run that processes zero briefs and then saves writes the
\* task list that was loaded: every field of every loaded task, the
\* dependency list included, is unchanged.
C24_NoOpRoundTrip ==
    NoOpRunSaved => output.written.master.tasks = input.tasks_file.data.master.tasks

\* the collection assign_task_ids returns in the process_brief_files call
\* that is made in this step, before any suggestion is applied to it
AssignedInStep == AssignOutcome(StartOf(mgr, heap), gen'.processed_briefs).coll

\* C25: if the collection returned by assign_task_ids is acyclic and
\* analyze_dependencies gives no circular-dependency warning, the collection
\* is still acyclic after apply_dependencies at threshold 0.7.
C25_WarningsCoverCycles ==
    [][(/\ pc \in {"ready", "processed"}
        /\ output'.op = "process_brief_files" /\ output'.raised = ""
        /\ ~HasDirectedCycle(Edges(AssignedInStep))
        /\ gen'.dependency_analysis.warnings = <<>>)
       => ~HasDirectedCycle(Edges(heap'[output'.result]))]_vars

\* C26: no relationship returned by analyze_dependencies, from whichever
\* pass, has from_task_id equal to to_task_id.
C26_NoSuggestedSelfEdge ==
    PipelineReturned =>
        \A i \in 1..Len(gen.dependency_analysis.suggested_dependencies) :
            gen.dependency_analysis.suggested_dependencies[i].from_task_id
                # gen.dependency_analysis.suggested_dependencies[i].to_task_id


\* C27: after process_brief_files in a fresh session that produced at least
\* one task, get_unlocked_tasks of the returned collection is not empty.
C27_PlanCanBeStarted ==
    (/\ PipelineReturned
     /\ mgr.existing_collection = None
     /\ Keys(heap[output.result]) # {})
        => get_unlocked_tasks(heap[output.result]) # {}

\* C28: every task created by assign_task_ids depends only on tasks that
\* are in the collection and have a smaller ID than its own - add_task never
\* has to reject a dependency the first pass asks for - and in a fresh
\* session validate_dependencies called right after assign_task_ids returns
\* no error.
C28_FirstPassBackwards ==
    (output # <<>> /\ output.op = "assign_task_ids")
    => /\ output.raised # "ValueError: dependency"
       /\ output.raised = "" =>
            /\ \A id \in CreatedIds :
                  \A d \in Range(heap[output.result].tasks[id].dependencies) :
                      d \in Keys(heap[output.result]) /\ d < id
            /\ mgr.existing_collection = None
                  => validate_dependencies(heap[output.result]).errors = <<>>

\* a fresh session created the tasks of two briefs, the first task of the
\* second brief depending on a task of the first
C28_Witness ==
    /\ output # <<>> /\ output.op = "assign_task_ids" /\ output.raised = ""
    /\ mgr.existing_collection = None
    /\ Len(output.briefs) = 2
    /\ \E id \in CreatedIds :
          /\ Len(heap[output.result].tasks[id].dependencies) = 1
          /\ heap[output.result].tasks[id].dependencies[1] < id - 1

\* C29: a process_brief_files call that raises while parsing a brief leaves
\* processed_briefs, generated_collection and dependency_analysis of the
\* generator as they were before the call.
C29_FailedRunKeepsState ==
    [][(output'.op = "process_brief_files" /\ output'.raised = "FileIOError") =>
          /\ gen'.processed_briefs = gen.processed_briefs
          /\ gen'.generated_collection = gen.generated_collection
          /\ gen'.dependency_analysis = gen.dependency_analysis]_vars

====
